---- MODULE Spec2Model ----
(***************************************************************************)
(* Model of the AlKanzar render core:                                      *)
(*   - RenderEngine, three-tier iteration (SimpleForward / Deferred41 /    *)
(*     TiledCompute): capability detection, init, the run loop, the event  *)
(*     handler, the per-tier frame passes and their memory barriers;       *)
(*   - the tiled light-culling data path (tile metadata, depth min/max     *)
(*     reduction, light culling compute shader);                           *)
(*   - ShadowSystem per-frame shadow registration, init and the shadow     *)
(*     render passes;                                                      *)
(*   - MeshBuffer, ShaderProgram and the composite fragment shader.        *)
(*                                                                         *)
(* Specifications:                                                         *)
(*   SpecDetect        detectLightingCapabilities over every context tuple *)
(*   Spec              the engine life cycle (init, run loop, events)      *)
(*   SpecTiles         tile buffers across resizes and culling frames      *)
(*   SpecShadow        ShadowSystem beginFrame / register*Shadow           *)
(*   SpecShadowMaps    ShadowSystem init and render*Shadows                *)
(*   SpecFramebuffers  the life cycle with incomplete framebuffers         *)
(*   SpecLifetime      the life cycle followed by ~RenderEngine            *)
(*   SpecVolume        updateLights and the cull face of the volume pass   *)
(*   SpecComposite     deferred_composite.frag over selectors and texels   *)
(*   SpecMesh          one MeshBuffer under upload / draw calls            *)
(*   SpecProgram       one ShaderProgram under build calls                 *)
(*   SpecCascades      the cascade split scheme over near / far planes     *)
(*   SpecCascadeCalls  updateDirectional calls between shadow frames       *)
(*   SpecWorkgroup     one depth min/max workgroup, invocation by step     *)
(*   SpecLightBuffer   buildLights, updateLights and the volume draws      *)
(*   SpecHandles       the GL object every engine handle names             *)
(*   SpecShadowAgreement shadow layers against the held matrices           *)
(***************************************************************************)
EXTENDS Integers, Sequences, FiniteSets, TLC

VARIABLES
    \* ---- GL context the engine runs on (environment)
    glCaps,             \* [major, minor, hasDispatchCompute, hasMemoryBarrier]
    \* ---- RenderEngine fields
    window_, glContext_, width_, height_, zoom_, middleDragging_, debugView_,
    dispatchCompute_, memoryBarrier_, rendererPath_, sceneReady_,
    builtShaders,       \* ShaderProgram objects whose id() != 0
    tiled,              \* handles and sizes owned by ensureLightingResources / updateLights
    deferred,           \* handles and sizes owned by ensureDeferredResources / updateLights
    lightsSize,         \* lights_.size()
    lightCounts,        \* [lightCount_, pointLightCount_, spotLightCount_]
    \* ---- run() position and observation of the GL command stream
    pc, running,
    detectLog,          \* log lines emitted by detectLightingCapabilities
    detectCalls,        \* number of detectLightingCapabilities calls so far
    opsSinceSwap,       \* GL stages issued since the last SDL_GL_SwapWindow
    lastFrameOps,       \* stages of the last completed loop iteration, swap included
    eventsHandled,      \* number of events handled so far
    \* ---- GPU buffer contents of the tiled path
    depthTex, gpuLights, tileDepth, tileMeta, lightIndices,
    cullWrites,         \* per tile: the lightIndices elements its last culling invocation wrote
    \* ---- ShadowSystem fields
    spotShadowCount_, pointShadowCount_, frameIndex_,
    spotShadowViewProj_, spotShadowMatrices_, pointShadowViewProj_,
    \* ---- observation of the ShadowSystem calls
    spotCalls,          \* arguments of the registerSpotShadow calls since the last beginFrame
    pointCalls,         \* arguments of the registerPointShadow calls since the last beginFrame
    lastCall, lastRet,  \* the last ShadowSystem call and its return value
    prevSpotCalls,      \* number of registerSpotShadow calls of the frame before
    \* ---- ShadowSystem configuration, shader and shadow map resources
    dirCascadeCount_, dirUpdateEvery_, spotUpdateEvery_, pointUpdateEvery_,
    shadowDepthShader_, \* shadowDepthShader_.id()
    dirShadowMap_, dirShadowFbo_, spotShadowMap_, spotShadowFbo_,
    pointShadowMap_, pointShadowFbo_,
    \* ---- the GL context as the ShadowSystem sees it
    glOutcome,          \* environment: what the shader build and the allocations yield
    glState,            \* framebuffer binding, viewport, masks and enables
    shadowLayers,       \* per shadow map: for each layer the frame that last drew it
    shadowInitRet,      \* "true" / "false" returned by ShadowSystem::init, "none" before
    lastRender,         \* the last render*Shadows call and whether it issued draws
    \* ---- RenderEngine: meshes and the observation of init()
    validMeshes,        \* the MeshBuffer members whose valid() is true
    lastInitRet,        \* "true" / "false" returned by the last init(), "none" before
    \* ---- the GL context as the engine's framebuffers see it (environment)
    fboIncomplete,      \* framebuffers for which glCheckFramebufferStatus reports incomplete
    \* ---- observation of ~RenderEngine
    destructLog,        \* the GL / SDL calls of the destructor and the member destructors
    \* ---- updateLights and the volume pass of the deferred tier
    viewLights,         \* the lights handed to updateLights, in view space
    cameraInsideLightVolume_,
    volumeCullFace,     \* the face glCullFace selected in the last volume pass
    \* ---- the composite pass
    uDebugMode,         \* the uniform set from debugView_
    texel,              \* what the fragment's texture fetches return
    FragColor,          \* the fragment's output
    \* ---- one MeshBuffer and the calls made on it
    meshBuf, meshNames, \* the fields; the number of GL names handed out so far
    meshCall,           \* the last call: arguments, return value, GL calls issued
    \* ---- one ShaderProgram and the calls made on it
    programId_, progNames,
    progCall,           \* the last build call: function, outcome, return value, GL calls
    \* ---- ShadowSystem::updateDirectional
    dirSplitLambda_,
    dirCascadeSplits_,
    dirShadowOut,       \* per cascade: what dirShadowViewProj_ / dirShadowMatrices_ are built from
    cascadeCall,        \* the arguments of the last call, and the call before it
    \* ---- depthMinMaxShader: one work group
    workgroup,          \* invocations' positions and locals, shared arrays, accesses, stores
    \* ---- the deferred tier's light list, its texture buffer and the volume draws
    lights_, gpuLights_,
    lightTexels,        \* the texels of lightsTbo_: which field of which gpuLights_ element
    lightPass,          \* counts, the frame's position, the draws and the shaders' fetches
    \* ---- the engine's GL handle fields and the GL objects behind them
    glOwner,            \* fields, sizes, live GL names, the glDelete calls of the last call
    \* ---- the shadow maps' contents
    shadowDrawn         \* per spot / point layer: the view-projection of its last draw

engineVars == <<glCaps, window_, glContext_, width_, height_, zoom_, middleDragging_,
                debugView_, dispatchCompute_, memoryBarrier_, rendererPath_, sceneReady_,
                builtShaders, tiled, deferred, lightsSize, lightCounts>>
loopVars   == <<pc, running, detectLog, detectCalls, opsSinceSwap, lastFrameOps, eventsHandled>>
tileVars   == <<depthTex, gpuLights, tileDepth, tileMeta, lightIndices, cullWrites>>
shadowVars == <<spotShadowCount_, pointShadowCount_, frameIndex_, spotShadowViewProj_,
                spotShadowMatrices_, pointShadowViewProj_, spotCalls, pointCalls, lastCall,
                lastRet, prevSpotCalls>>
shadowGlVars == <<dirCascadeCount_, dirUpdateEvery_, spotUpdateEvery_, pointUpdateEvery_,
                  shadowDepthShader_, dirShadowMap_, dirShadowFbo_, spotShadowMap_,
                  spotShadowFbo_, pointShadowMap_, pointShadowFbo_, glOutcome, glState,
                  shadowLayers, shadowInitRet, lastRender>>
glEnvVars == <<fboIncomplete>>
volumeVars == <<viewLights, cameraInsideLightVolume_, volumeCullFace>>
compositeVars == <<uDebugMode, texel, FragColor>>
meshVars == <<meshBuf, meshNames, meshCall>>
programVars == <<programId_, progNames, progCall>>
cascadeVars == <<dirSplitLambda_, dirCascadeSplits_, dirShadowOut, cascadeCall>>
lightBufferVars == <<lights_, gpuLights_, lightTexels, lightPass>>
lateVars == <<cascadeVars, workgroup, lightBufferVars, glOwner, shadowDrawn>>
miscVars == <<volumeVars, compositeVars, meshVars, programVars, lateVars>>
extVars == <<shadowGlVars, glEnvVars, destructLog, miscVars>>
sceneVars == <<validMeshes, lastInitRet>>
vars == <<engineVars, loopVars, tileVars, shadowVars, extVars, sceneVars>>

(***************************************************************************)
(* Bounds of the model                                                     *)
(***************************************************************************)
MaxGlMajor == 5         \* context major versions 3..MaxGlMajor
MaxGlMinor == 4         \* context minor versions 0..MaxGlMinor
MaxEvents == 3          \* events handled over one engine life time
MaxLights == 3          \* SpecTiles: light counts 0..MaxLights
MaxFrames == 2          \* SpecShadow: beginFrame calls
MaxExtraCalls == 1      \* SpecShadow: register calls per frame beyond the capacity

(***************************************************************************)
(* Program constants                                                       *)
(***************************************************************************)
kMinZoom == 200         \* kMinZoom = 0.2f, in thousandths
kMaxZoom == 5000        \* kMaxZoom = 5.0f, in thousandths
kPointLights == 32
kSpotLights == 8
kMaxSpotShadows == 4
kMaxPointShadows == 2
kMaxCascades == 4
TileSizeLog2 == 1       \* tileSize_ = 2^TileSizeLog2 (16 = 2^4 in the source)
tileSize_ == 2 ^ TileSizeLog2
maxLightsPerTile_ == 2  \* kMaxLightsPerTile (128 in the source), scaled down

Min(a, b) == IF a < b THEN a ELSE b
Max(a, b) == IF a > b THEN a ELSE b

(***************************************************************************)
(* RenderEngine::detectLightingCapabilities (three-tier)                   *)
(***************************************************************************)
LogLine(level, text) == [level |-> level, text |-> text]

\* Variant: compute support decided without the glMemoryBarrier entry point.
detectLightingCapabilities_NoBarrierProc(major, minor, dispatchProc, barrierProc) ==
    LET supportsCompute == dispatchProc
                           /\ (major > 4 \/ (major = 4 /\ minor >= 3))
    IN  IF supportsCompute
        THEN [path |-> "TiledCompute",
              logs |-> <<LogLine("info", "compute/SSBO path enabled")>>]
        ELSE IF major > 4 \/ (major = 4 /\ minor >= 1)
        THEN [path |-> "Deferred41",
              logs |-> <<LogLine("warn", "compute/SSBO path unavailable"),
                         LogLine("info", "using deferred path (GL 4.1 compatible)")>>]
        ELSE [path |-> "SimpleForward",
              logs |-> <<LogLine("warn", "deferred path unavailable")>>]

\* Variant: the deferred branch logs like the branch that selects the simple path,
\* one line only.
detectLightingCapabilities_OneLine(major, minor, dispatchProc, barrierProc) ==
    LET supportsCompute == dispatchProc /\ barrierProc
                           /\ (major > 4 \/ (major = 4 /\ minor >= 3))
    IN  IF supportsCompute
        THEN [path |-> "TiledCompute",
              logs |-> <<LogLine("info", "compute/SSBO path enabled")>>]
        ELSE IF major > 4 \/ (major = 4 /\ minor >= 1)
        THEN [path |-> "Deferred41",
              logs |-> <<LogLine("info", "using deferred path (GL 4.1 compatible)")>>]
        ELSE [path |-> "SimpleForward",
              logs |-> <<LogLine("warn", "deferred path unavailable")>>]

detectLightingCapabilities(major, minor, dispatchProc, barrierProc) ==
    LET supportsCompute == dispatchProc /\ barrierProc
                           /\ (major > 4 \/ (major = 4 /\ minor >= 3))
    IN  IF supportsCompute
        THEN [path |-> "TiledCompute",
              logs |-> <<LogLine("info", "compute/SSBO path enabled")>>]
        ELSE IF major > 4 \/ (major = 4 /\ minor >= 1)
        THEN [path |-> "Deferred41",
              logs |-> <<LogLine("warn", "compute/SSBO path unavailable"),
                         LogLine("info", "using deferred path (GL 4.1 compatible)")>>]
        ELSE [path |-> "SimpleForward",
              logs |-> <<LogLine("warn", "deferred path unavailable")>>]


(***************************************************************************)
(* Size-dependent resources                                                *)
(***************************************************************************)
\* RenderEngine's tiled-path members as default-constructed (all handles 0).
NoTiled ==
    [depthFbo_ |-> 0, depthTexture_ |-> 0, lightsSsbo_ |-> 0, tileMetaSsbo_ |-> 0,
     tileIndexSsbo_ |-> 0, tileDepthSsbo_ |-> 0,
     resourceWidth_ |-> 0, resourceHeight_ |-> 0, tilesX_ |-> 0, tilesY_ |-> 0,
     lightBufferSize_ |-> 0]

\* RenderEngine's deferred-path members as default-constructed.
NoDeferred ==
    [gbufferFbo_ |-> 0, lightFbo_ |-> 0, gbufferAlbedo_ |-> 0, gbufferNormal_ |-> 0,
     gbufferDepthColor_ |-> 0, gbufferDepth_ |-> 0, lightColor_ |-> 0,
     lightsTboTex_ |-> 0, lightsTbo_ |-> 0, fullscreenVao_ |-> 0,
     deferredWidth_ |-> 0, deferredHeight_ |-> 0, lightTboSize_ |-> 0]

\* A handle is modelled as 0 (no object) or 1 (an object name from glGen*).
TiledHandles == {"depthFbo_", "depthTexture_", "lightsSsbo_", "tileMetaSsbo_",
                 "tileIndexSsbo_", "tileDepthSsbo_"}
DeferredHandles == {"gbufferFbo_", "lightFbo_", "gbufferAlbedo_", "gbufferNormal_",
                    "gbufferDepthColor_", "gbufferDepth_", "lightColor_",
                    "lightsTboTex_", "lightsTbo_", "fullscreenVao_"}

TilesFor(pixels) == (pixels + tileSize_ - 1) \div tileSize_

ensureLightingResources(path, w, h, t) ==
    IF path # "TiledCompute" THEN t
    ELSE IF w <= 0 \/ h <= 0 THEN t
    ELSE IF w = t.resourceWidth_ /\ h = t.resourceHeight_ THEN t
    ELSE [t EXCEPT !.resourceWidth_ = w, !.resourceHeight_ = h,
                   !.tilesX_ = TilesFor(w), !.tilesY_ = TilesFor(h),
                   !.depthTexture_ = 1, !.depthFbo_ = 1,
                   !.tileMetaSsbo_ = 1, !.tileIndexSsbo_ = 1, !.tileDepthSsbo_ = 1]

destroyDeferredResources(ctx, d) ==
    IF ~ctx THEN d ELSE NoDeferred

\* Mutant of ensureDeferredResources: existing targets are kept whatever their size.
ensureDeferredResources_KeepsSize(path, ctx, w, h, d) ==
    IF path # "Deferred41" THEN d
    ELSE IF w <= 0 \/ h <= 0 THEN d
    ELSE IF d.gbufferFbo_ # 0 /\ d.lightFbo_ # 0 THEN d
    ELSE [destroyDeferredResources(ctx, d) EXCEPT
              !.deferredWidth_ = w, !.deferredHeight_ = h,
              !.gbufferAlbedo_ = 1, !.gbufferNormal_ = 1, !.gbufferDepthColor_ = 1,
              !.gbufferDepth_ = 1, !.gbufferFbo_ = 1, !.lightColor_ = 1,
              !.lightFbo_ = 1, !.fullscreenVao_ = 1]

ensureDeferredResources(path, ctx, w, h, d) ==
    IF path # "Deferred41" THEN d
    ELSE IF w <= 0 \/ h <= 0 THEN d
    ELSE IF w = d.deferredWidth_ /\ h = d.deferredHeight_
            /\ d.gbufferFbo_ # 0 /\ d.lightFbo_ # 0 THEN d
    ELSE [destroyDeferredResources(ctx, d) EXCEPT
              !.deferredWidth_ = w, !.deferredHeight_ = h,
              !.gbufferAlbedo_ = 1, !.gbufferNormal_ = 1, !.gbufferDepthColor_ = 1,
              !.gbufferDepth_ = 1, !.gbufferFbo_ = 1, !.lightColor_ = 1,
              !.lightFbo_ = 1, !.fullscreenVao_ = 1]

\* updateProjection: the matrices are functions of (width_, height_, zoom_, pan) and
\* are not stored; what remains is the per-tier resource refresh.
updateProjectionTiled(path, w, h, t) ==
    IF path = "TiledCompute" THEN ensureLightingResources(path, w, h, t) ELSE t

updateProjectionDeferred(path, ctx, w, h, d) ==
    IF path = "TiledCompute" THEN d
    ELSE IF path = "Deferred41" THEN ensureDeferredResources(path, ctx, w, h, d)
    ELSE d

(***************************************************************************)
(* Lights                                                                  *)
(***************************************************************************)
NoLights == [lightCount_ |-> 0, pointLightCount_ |-> 0, spotLightCount_ |-> 0]

\* sizeof(GpuLight): four vec4
GpuLightBytes == 64

\* updateLights, host side: the counts
updateLightsCounts(path, n, c) ==
    IF path = "SimpleForward" THEN c
    ELSE IF n = 0 THEN NoLights
    ELSE [lightCount_ |-> n, pointLightCount_ |-> kPointLights,
          spotLightCount_ |-> n - kPointLights]

\* updateLights, tiled tier: the SSBO of lights
updateLightsTiled(path, n, t) ==
    IF path # "TiledCompute" \/ n = 0 THEN t
    ELSE [t EXCEPT !.lightsSsbo_ = 1, !.lightBufferSize_ = n * GpuLightBytes]

\* updateLights, deferred tier: the texture buffer of lights
updateLightsDeferred(path, n, d) ==
    IF path # "Deferred41" \/ n = 0 THEN d
    ELSE [d EXCEPT !.lightsTbo_ = 1, !.lightsTboTex_ = 1,
                   !.lightTboSize_ = n * GpuLightBytes]

(***************************************************************************)
(* Frame passes: each operator gives the GL stages the pass issues, in     *)
(* order, in the state it is called in.                                    *)
(***************************************************************************)
updateLightsOps(path, n) ==
    IF path = "SimpleForward" \/ n = 0 THEN <<>> ELSE <<"updateLights">>

renderDepthPrepass(path, t, barrierFn) ==
    IF path # "TiledCompute" THEN <<>>
    ELSE IF t.depthFbo_ = 0 \/ t.depthTexture_ = 0 THEN <<>>
    ELSE <<"depthPrepass">>
         \o (IF barrierFn THEN <<"barrier:TEXTURE_FETCH">> ELSE <<>>)

dispatchDepthMinMax(path, t, dispatchFn, barrierFn) ==
    IF path # "TiledCompute" \/ ~dispatchFn THEN <<>>
    ELSE IF t.tilesX_ <= 0 \/ t.tilesY_ <= 0 \/ t.tileDepthSsbo_ = 0
            \/ t.depthTexture_ = 0 THEN <<>>
    ELSE <<"dispatchDepthMinMax">>
         \o (IF barrierFn THEN <<"barrier:SHADER_STORAGE">> ELSE <<>>)

\* Variant: the culling dispatch is not followed by its barrier.
dispatchLightCulling_NoBarrier(path, t, dispatchFn, barrierFn) ==
    IF path # "TiledCompute" \/ ~dispatchFn THEN <<>>
    ELSE IF t.tilesX_ <= 0 \/ t.tilesY_ <= 0 \/ t.tileMetaSsbo_ = 0
            \/ t.tileIndexSsbo_ = 0 \/ t.tileDepthSsbo_ = 0 THEN <<>>
    ELSE <<"dispatchLightCulling">>

dispatchLightCulling(path, t, dispatchFn, barrierFn) ==
    IF path # "TiledCompute" \/ ~dispatchFn THEN <<>>
    ELSE IF t.tilesX_ <= 0 \/ t.tilesY_ <= 0 \/ t.tileMetaSsbo_ = 0
            \/ t.tileIndexSsbo_ = 0 \/ t.tileDepthSsbo_ = 0 THEN <<>>
    ELSE <<"dispatchLightCulling">>
         \o (IF barrierFn THEN <<"barrier:SHADER_STORAGE">> ELSE <<>>)

renderLitScene(path) ==
    IF path # "TiledCompute" THEN <<>> ELSE <<"litScene">>

renderDeferredScene(path, d, n) ==
    IF path # "Deferred41" THEN <<>>
    ELSE IF d.gbufferFbo_ = 0 \/ d.lightFbo_ = 0 THEN <<>>
    ELSE updateLightsOps(path, n)
         \o <<"gbufferPass", "dirLightPass">>
         \o (IF updateLightsCounts(path, n, NoLights).lightCount_ > 0
             THEN <<"volumePass">> ELSE <<>>)
         \o <<"compositePass">>

renderSimpleScene == <<"simpleScene">>

\* Variant: two-way branch, every tier but the deferred one renders the simple scene.
renderScene_TwoWay(ready, path, t, d, n, dispatchFn, barrierFn) ==
    IF ~ready THEN <<>>
    ELSE IF path = "Deferred41" THEN renderDeferredScene(path, d, n)
    ELSE renderSimpleScene

\* Variant: light culling dispatched before the depth min/max reduction.
renderScene_CullFirst(ready, path, t, d, n, dispatchFn, barrierFn) ==
    IF ~ready THEN <<>>
    ELSE IF path = "SimpleForward" THEN renderSimpleScene
    ELSE IF path = "TiledCompute"
    THEN updateLightsOps(path, n)
         \o renderDepthPrepass(path, updateLightsTiled(path, n, t), barrierFn)
         \o dispatchLightCulling(path, updateLightsTiled(path, n, t), dispatchFn, barrierFn)
         \o dispatchDepthMinMax(path, updateLightsTiled(path, n, t), dispatchFn, barrierFn)
         \o renderLitScene(path)
    ELSE IF path = "Deferred41" THEN renderDeferredScene(path, d, n)
    ELSE <<>>

\* renderScene: the stages of one frame
renderScene(ready, path, t, d, n, dispatchFn, barrierFn) ==
    IF ~ready THEN <<>>
    ELSE IF path = "SimpleForward" THEN renderSimpleScene
    ELSE IF path = "TiledCompute"
    THEN updateLightsOps(path, n)
         \o renderDepthPrepass(path, updateLightsTiled(path, n, t), barrierFn)
         \o dispatchDepthMinMax(path, updateLightsTiled(path, n, t), dispatchFn, barrierFn)
         \o dispatchLightCulling(path, updateLightsTiled(path, n, t), dispatchFn, barrierFn)
         \o renderLitScene(path)
    ELSE IF path = "Deferred41" THEN renderDeferredScene(path, d, n)
    ELSE <<>>

\* The tier a stage belongs to.
StageTier(op) ==
    IF op \in {"depthPrepass", "dispatchDepthMinMax", "dispatchLightCulling", "litScene",
               "barrier:TEXTURE_FETCH", "barrier:SHADER_STORAGE"} THEN {"TiledCompute"}
    ELSE IF op \in {"gbufferPass", "dirLightPass", "volumePass", "compositePass"}
    THEN {"Deferred41"}
    ELSE IF op = "simpleScene" THEN {"SimpleForward"}
    ELSE IF op = "updateLights" THEN {"TiledCompute", "Deferred41"}
    ELSE {"SimpleForward", "Deferred41", "TiledCompute"}

(***************************************************************************)
(* MeshBuffer                                                              *)
(***************************************************************************)
\* A MeshBuffer as constructed.
NoMesh == [vao_ |-> 0, vbo_ |-> 0, ebo_ |-> 0, indexCount_ |-> 0]

valid(mb) == mb.vao_ # 0 /\ mb.vbo_ # 0 /\ mb.ebo_ # 0 /\ mb.indexCount_ > 0

\* destroy(): the glDelete* calls it issues; it leaves NoMesh.
destroyOps(mb) ==
    (IF mb.ebo_ # 0 THEN <<"glDeleteBuffers">> ELSE <<>>)
    \o (IF mb.vbo_ # 0 THEN <<"glDeleteBuffers">> ELSE <<>>)
    \o (IF mb.vao_ # 0 THEN <<"glDeleteVertexArrays">> ELSE <<>>)

\* Mutant of upload: the old GL objects are kept when the data is empty.
upload_KeepsOld(mb, nVertices, nIndices, name) ==
    IF nVertices = 0 \/ nIndices = 0
    THEN [ret |-> FALSE, mb |-> mb, ops |-> <<"spdlog::error">>]
    ELSE [ret |-> TRUE,
          mb |-> [vao_ |-> name, vbo_ |-> name, ebo_ |-> name, indexCount_ |-> nIndices],
          ops |-> destroyOps(mb) \o <<"glGen", "glBufferData", "glBufferData">>]

\* upload(vertices, indices) with nVertices floats and nIndices indices; name is the
\* fresh name glGen* hands out.
upload(mb, nVertices, nIndices, name) ==
    IF nVertices = 0 \/ nIndices = 0
    THEN [ret |-> FALSE, mb |-> NoMesh, ops |-> destroyOps(mb) \o <<"spdlog::error">>]
    ELSE [ret |-> TRUE,
          mb |-> [vao_ |-> name, vbo_ |-> name, ebo_ |-> name, indexCount_ |-> nIndices],
          ops |-> destroyOps(mb) \o <<"glGen", "glBufferData", "glBufferData">>]

\* draw(): the GL calls it issues.
draw(mb) ==
    IF ~valid(mb) THEN <<>>
    ELSE <<"glBindVertexArray", "glDrawElements", "glBindVertexArray">>

(***************************************************************************)
(* RenderEngine::buildScene                                                *)
(***************************************************************************)
\* The shader programs each tier builds, in build order.
TierShaders(path) ==
    IF path = "SimpleForward" THEN <<"simpleShader_">>
    ELSE IF path = "TiledCompute"
    THEN <<"lightingShader_", "depthShader_", "depthMinMaxCompute_", "lightCullCompute_">>
    ELSE <<"deferredGeometryShader_", "deferredDirLightShader_",
           "deferredVolumeShader_", "deferredCompositeShader_">>

\* The MeshBuffer members each tier uploads, in upload order.
VolumeMeshes(path) ==
    IF path = "Deferred41" THEN <<"lightSphere_", "lightCone_">> ELSE <<>>
SceneMeshes == <<"ground_", "wallA_", "wallB_">>

\* Vertex and index counts handed to upload: the source's quads and volumes are not
\* empty; EmptyGround / EmptyCone stand for a build whose geometry came out empty.
SourceMeshData ==
    [mesh \in {"lightSphere_", "lightCone_", "ground_", "wallA_", "wallB_"} |->
        [vertices |-> 4, indices |-> 6]]
EmptyGround == [SourceMeshData EXCEPT !["ground_"] = [vertices |-> 0, indices |-> 0]]
EmptyCone == [SourceMeshData EXCEPT !["lightCone_"] = [vertices |-> 4, indices |-> 0]]
MeshDataChoices == {SourceMeshData, EmptyGround, EmptyCone}

\* The longest prefix of meshes whose uploads are attempted by a chain of &&: all up
\* to and including the first that fails.
RECURSIVE UploadChain(_, _, _)
UploadChain(meshes, data, i) ==
    IF i > Len(meshes) THEN {}
    ELSE IF upload(NoMesh, data[meshes[i]].vertices, data[meshes[i]].indices, 1).ret
         THEN {meshes[i]} \cup UploadChain(meshes, data, i + 1)
         ELSE {}

\* Mutant of buildScene: the results of the mesh uploads are not consulted.
buildScene_IgnoresUploads(path, nBuilt, data) ==
    LET progs == TierShaders(path)
        allBuilt == nBuilt = Len(progs)
        volumes == {VolumeMeshes(path)[i] : i \in 1..Len(VolumeMeshes(path))}
        volumesValid == {v \in volumes :
                            upload(NoMesh, data[v].vertices, data[v].indices, 1).ret}
        sceneValid == UploadChain(SceneMeshes, data, 1)
    IN  [built |-> {progs[i] : i \in 1..nBuilt},
         lights |-> IF allBuilt /\ path # "SimpleForward"
                    THEN kPointLights + kSpotLights ELSE 0,
         meshes |-> IF allBuilt THEN volumesValid \cup sceneValid ELSE {},
         ready |-> allBuilt]

\* buildScene when the first nBuilt programs build and the next one (if any) fails,
\* with mesh data `data`: a failed build returns at once with sceneReady_ = false;
\* otherwise sceneReady_ = shadersReady && volumeReady && ground && wallA && wallB.
buildScene(path, nBuilt, data) ==
    LET progs == TierShaders(path)
        allBuilt == nBuilt = Len(progs)
        volumes == {VolumeMeshes(path)[i] : i \in 1..Len(VolumeMeshes(path))}
        volumesValid == {v \in volumes :
                            upload(NoMesh, data[v].vertices, data[v].indices, 1).ret}
        volumeReady == volumesValid = volumes
        sceneValid == IF volumeReady THEN UploadChain(SceneMeshes, data, 1) ELSE {}
    IN  [built |-> {progs[i] : i \in 1..nBuilt},
         lights |-> IF allBuilt /\ path # "SimpleForward"
                    THEN kPointLights + kSpotLights ELSE 0,
         meshes |-> IF allBuilt THEN volumesValid \cup sceneValid ELSE {},
         ready |-> allBuilt /\ volumeReady
                   /\ sceneValid = {SceneMeshes[i] : i \in 1..Len(SceneMeshes)}]

(***************************************************************************)
(* RenderEngine::init                                                      *)
(***************************************************************************)
\* init() with return value ret. windowOk / contextOk: whether SDL creates the
\* window and the GL context.
InitCall(ret) ==
    IF window_
    THEN /\ ret = TRUE
         /\ lastInitRet' = "true"
         /\ UNCHANGED <<engineVars, detectLog, detectCalls, validMeshes>>
    ELSE \E windowOk, contextOk \in BOOLEAN :
         IF ~windowOk
         THEN /\ ret = FALSE
              /\ lastInitRet' = "false"
              /\ UNCHANGED <<engineVars, detectLog, detectCalls, validMeshes>>
         ELSE IF ~contextOk
         THEN /\ ret = FALSE
              /\ lastInitRet' = "false"
              /\ validMeshes' = validMeshes
              /\ window_' = FALSE
              /\ UNCHANGED <<glCaps, glContext_, width_, height_, zoom_, middleDragging_,
                             debugView_, dispatchCompute_, memoryBarrier_, rendererPath_,
                             sceneReady_, builtShaders, tiled, deferred, lightsSize,
                             lightCounts, detectLog, detectCalls>>
         ELSE LET det == detectLightingCapabilities(glCaps.major, glCaps.minor,
                             glCaps.hasDispatchCompute, glCaps.hasMemoryBarrier)
              IN  \E nBuilt \in 0..Len(TierShaders(det.path)), data \in MeshDataChoices :
                  LET scene == buildScene(det.path, nBuilt, data)
                  IN  /\ window_' = TRUE
                      /\ validMeshes' = scene.meshes
                      /\ lastInitRet' = IF scene.ready THEN "true" ELSE "false"
                      /\ glContext_' = TRUE
                      /\ dispatchCompute_' = glCaps.hasDispatchCompute
                      /\ memoryBarrier_' = glCaps.hasMemoryBarrier
                      /\ rendererPath_' = det.path
                      /\ detectLog' = detectLog \o det.logs
                      /\ detectCalls' = detectCalls + 1
                      /\ tiled' = updateProjectionTiled(det.path, width_, height_, tiled)
                      /\ deferred' = updateProjectionDeferred(det.path, TRUE, width_,
                                                              height_, deferred)
                      /\ builtShaders' = scene.built
                      /\ lightsSize' = scene.lights
                      /\ sceneReady_' = scene.ready
                      /\ ret = scene.ready
                      /\ UNCHANGED <<glCaps, width_, height_, zoom_, middleDragging_,
                                     debugView_, lightCounts>>

(***************************************************************************)
(* RenderEngine::handleEvent                                               *)
(***************************************************************************)
Clamp(v, lo, hi) == IF v < lo THEN lo ELSE IF v > hi THEN hi ELSE v

\* Window sizes delivered by SIZE_CHANGED: none, one whole tile, one tile and a pixel.
WindowSizes == {0, tileSize_, tileSize_ + 1}

DebugKeys == {"0", "1", "2", "3", "4", "5"}
KeyView(sym) == CASE sym = "0" -> 0 [] sym = "1" -> 1 [] sym = "2" -> 2
                  [] sym = "3" -> 3 [] sym = "4" -> 4 [] sym = "5" -> 5

Events ==
    {[type |-> "QUIT"]}
    \cup {[type |-> "KEYDOWN", sym |-> s] : s \in DebugKeys \cup {"ESCAPE", "other"}}
    \cup {[type |-> "MOUSEWHEEL", y |-> y] : y \in {-1, 0, 1}}
    \cup {[type |-> "MOUSEBUTTONDOWN", button |-> b] : b \in {"MIDDLE", "LEFT"}}
    \cup {[type |-> "MOUSEBUTTONUP", button |-> b] : b \in {"MIDDLE", "LEFT"}}
    \cup {[type |-> "MOUSEMOTION"]}
    \cup {[type |-> "WINDOWEVENT", event |-> "SIZE_CHANGED", data1 |-> w, data2 |-> h] :
              w \in WindowSizes, h \in WindowSizes}
    \cup {[type |-> "WINDOWEVENT", event |-> "other", data1 |-> 0, data2 |-> 0]}

\* The part of handleEvent that ends in updateProjection().
Refresh(w, h) ==
    /\ tiled' = updateProjectionTiled(rendererPath_, w, h, tiled)
    /\ deferred' = updateProjectionDeferred(rendererPath_, glContext_, w, h, deferred)

handleEvent(e) ==
    /\ running' = IF e.type = "QUIT" \/ (e.type = "KEYDOWN" /\ e.sym = "ESCAPE")
                  THEN FALSE ELSE running
    /\ debugView_' = IF e.type = "KEYDOWN" /\ e.sym \in DebugKeys
                     THEN KeyView(e.sym) ELSE debugView_
    /\ zoom_' = IF e.type = "MOUSEWHEEL" /\ e.y # 0
                THEN Clamp((zoom_ * (IF e.y > 0 THEN 9 ELSE 11)) \div 10, kMinZoom, kMaxZoom)
                ELSE zoom_
    /\ middleDragging_' =
           IF e.type = "MOUSEBUTTONDOWN" /\ e.button = "MIDDLE" THEN TRUE
           ELSE IF e.type = "MOUSEBUTTONUP" /\ e.button = "MIDDLE" THEN FALSE
           ELSE middleDragging_
    /\ width_' = IF e.type = "WINDOWEVENT" /\ e.event = "SIZE_CHANGED"
                 THEN e.data1 ELSE width_
    /\ height_' = IF e.type = "WINDOWEVENT" /\ e.event = "SIZE_CHANGED"
                  THEN e.data2 ELSE height_
    /\ IF \/ e.type = "MOUSEWHEEL" /\ e.y # 0
          \/ e.type = "MOUSEMOTION" /\ middleDragging_
          \/ e.type = "WINDOWEVENT" /\ e.event = "SIZE_CHANGED"
       THEN Refresh(width_', height_')
       ELSE UNCHANGED <<tiled, deferred>>
    /\ UNCHANGED <<glCaps, window_, glContext_, dispatchCompute_, memoryBarrier_,
                   rendererPath_, sceneReady_, builtShaders, lightsSize, lightCounts>>

(***************************************************************************)
(* Initial states                                                          *)
(***************************************************************************)
GlContexts ==
    [major : 3..MaxGlMajor, minor : 0..MaxGlMinor,
     hasDispatchCompute : BOOLEAN, hasMemoryBarrier : BOOLEAN]

\* Contexts the engine life cycle is explored on: one or more per tier, with the
\* version and entry-point combinations at both tier boundaries.
ContextProfiles ==
    {c \in GlContexts :
        \/ c.major = 3 /\ c.minor = 3 /\ ~c.hasDispatchCompute /\ ~c.hasMemoryBarrier
        \/ c.major = 4 /\ c.minor = 1 /\ c.hasDispatchCompute = c.hasMemoryBarrier
        \/ c.major = 4 /\ c.minor = 3 /\ c.hasDispatchCompute}

\* The tile buffers, the shadow system and the loop observation as constructed.
TilesIdle ==
    /\ depthTex = <<>> /\ gpuLights = <<>> /\ tileDepth = <<>>
    /\ tileMeta = <<>> /\ lightIndices = <<>>
    /\ cullWrites = <<>>

\* The GL state a fresh context starts with, as far as the shadow passes touch it.
GlDefaultState ==
    [framebuffer |-> 0, viewport |-> 0, depthTest |-> FALSE, depthMask |-> TRUE,
     colorMask |-> TRUE, cullFace |-> FALSE, polygonOffsetFill |-> FALSE,
     polygonOffset |-> <<0, 0>>, program |-> 0]

\* No render*Shadows call since the last other ShadowSystem call.
NoRender == [kind |-> "none", drew |-> FALSE]

\* A context on which the shadow shader builds and every allocation succeeds.
GlAllOk == [shader |-> "ok", dir |-> "ok", spot |-> "ok", point |-> "ok"]

\* ShadowSystem members as constructed: no shader, no shadow maps, intervals 1.
ShadowGlIdle ==
    /\ dirCascadeCount_ = 3
    /\ dirUpdateEvery_ = 1 /\ spotUpdateEvery_ = 1 /\ pointUpdateEvery_ = 1
    /\ shadowDepthShader_ = 0
    /\ dirShadowMap_ = 0 /\ dirShadowFbo_ = 0
    /\ spotShadowMap_ = 0 /\ spotShadowFbo_ = 0
    /\ pointShadowMap_ = 0 /\ pointShadowFbo_ = 0
    /\ glOutcome = GlAllOk
    /\ glState = GlDefaultState
    /\ shadowLayers = [dir |-> <<>>, spot |-> <<>>, point |-> <<>>]
    /\ shadowInitRet = "none"
    /\ lastRender = NoRender

\* A context on which every framebuffer the engine allocates is complete.
GlEnvIdle ==
    /\ fboIncomplete = {}
    /\ destructLog = <<>>

(***************************************************************************)
(* float arithmetic of ShadowSystem::updateDirectional, scaled down: a     *)
(* binary floating-point format with FloatBits significand bits, round to  *)
(* nearest (ties to even) after every operation, and the smallest spacing  *)
(* 2^-QuantumLog2 (the subnormal spacing).  A value is the integer number  *)
(* of quanta it holds.                                                     *)
(***************************************************************************)
FloatBits == 4          \* significand bits (24 in the source's float)
QuantumLog2 == 2        \* quanta per 1.0f = 2^QuantumLog2
Quantum == 2 ^ QuantumLog2

RECURSIVE BitLen(_)
BitLen(n) == IF n = 0 THEN 0 ELSE 1 + BitLen(n \div 2)

\* The representable value nearest to num / den quanta (num >= 0, den > 0).
RoundNearestEven(num, den) ==
    LET s == Max(0, BitLen(num \div den) - FloatBits)
        D == den * 2 ^ s
        m == num \div D
        rem == num % D
    IN  (IF 2 * rem > D \/ (2 * rem = D /\ m % 2 = 1) THEN m + 1 ELSE m) * 2 ^ s

Fl(num, den) ==
    IF num < 0 THEN 0 - RoundNearestEven(0 - num, den) ELSE RoundNearestEven(num, den)

Representable(n) == Fl(n, 1) = n

\* static_cast<float>(k) for a small integer k
ToFloat(k) == Fl(k * Quantum, 1)

fadd(a, b) == Fl(a + b, 1)
fsub(a, b) == Fl(a - b, 1)
fmul(a, b) == Fl(a * b, Quantum)
fdiv(a, b) == Fl(a * Quantum, b)

Abs(v) == IF v < 0 THEN 0 - v ELSE v

\* The spacing of the representable values at the magnitude of v.
Ulp(v) == 2 ^ Max(0, BitLen(Abs(v)) - FloatBits)

\* The largest representable a <= start with a^4 <= z.
RECURSIVE FloorRoot4(_, _)
FloorRoot4(start, z) ==
    IF start = 0 \/ (Representable(start) /\ start ^ 4 <= z) THEN start
    ELSE FloorRoot4(start - 1, z)

\* std::pow(x, p) for x >= 1 and p a multiple of 1/4 in (0, 1], correctly
\* rounded: the representable y nearest to the real x^p, found by comparing
\* fourth powers (y^4 against z = x^p * Quantum^(4 - p) in quanta^4).
pow(x, p) ==
    LET z == (x ^ p) * (Quantum ^ (4 - p))
        lo == FloorRoot4(x, z)
        hi == lo + Ulp(lo)
    IN  IF lo ^ 4 = z THEN lo
        ELSE IF 16 * z < (lo + hi) ^ 4 THEN lo
        ELSE IF 16 * z > (lo + hi) ^ 4 THEN hi
        ELSE IF (lo \div Ulp(lo)) % 2 = 0 THEN lo
        ELSE hi

\* ShadowSystem as constructed, as far as updateDirectional goes:
\* dirSplitLambda_{0.6f}, value-initialised output arrays.
NoCascadeArgs == [camera |-> "none", lightDir |-> "none", nearPlane |-> 0, farPlane |-> 0]
NoCascadeOut == [camera |-> "none", lightDir |-> "none", prevSplitDist |-> 0, splitDist |-> 0]
NoSplits == [i \in 1..kMaxCascades |-> 0]
NoCascadeOuts == [i \in 1..kMaxCascades |-> NoCascadeOut]
NoCascadeCall == [calls |-> 0, args |-> NoCascadeArgs, frame |-> 0,
                  prevArgs |-> NoCascadeArgs, laterFrame |-> FALSE, prevSplits |-> NoSplits,
                  prevOut |-> NoCascadeOuts]
CascadeIdle ==
    /\ dirSplitLambda_ = Fl(6 * Quantum, 10)
    /\ dirCascadeSplits_ = NoSplits
    /\ dirShadowOut = NoCascadeOuts
    /\ cascadeCall = NoCascadeCall

\* No work group of depthMinMaxShader is running.
NoWorkgroup ==
    [tile |-> <<0, 0>>, screen |-> <<0, 0>>,
     tex |-> [p \in {} |-> 0],
     pc |-> [idx \in 0..(tileSize_ * tileSize_ - 1) |-> "idle"],
     stride |-> [idx \in 0..(tileSize_ * tileSize_ - 1) |-> 0],
     arrived |-> [idx \in 0..(tileSize_ * tileSize_ - 1) |-> 0],
     sMin |-> [idx \in 0..(tileSize_ * tileSize_ - 1) |-> 0 - 1],
     sMax |-> [idx \in 0..(tileSize_ * tileSize_ - 1) |-> 0 - 1],
     access |-> {}, stores |-> {}]

WorkgroupIdle == workgroup = NoWorkgroup

\* RenderEngine as constructed, as far as the light list goes.
NoLightPass ==
    [lightCount_ |-> 0, pointLightCount_ |-> 0, spotLightCount_ |-> 0,
     stage |-> "idle", frames |-> 0, built |-> <<>>, draws |-> <<>>, fetches |-> {}]

LightBufferIdle ==
    /\ lights_ = <<>>
    /\ gpuLights_ = <<>>
    /\ lightTexels = <<>>
    /\ lightPass = NoLightPass

\* A RenderEngine as constructed: every handle field 0, no GL object.
NoOwner ==
    [path |-> "SimpleForward", glContext_ |-> FALSE, width_ |-> 0, height_ |-> 0,
     f |-> [h \in TiledHandles \cup DeferredHandles |-> 0],
     deferredWidth_ |-> 0, deferredHeight_ |-> 0, lightTboSize_ |-> 0,
     resourceWidth_ |-> 0, resourceHeight_ |-> 0, lightBufferSize_ |-> 0,
     live |-> {}, next |-> 1, deleted |-> <<>>, doubleDelete |-> FALSE,
     lastOp |-> "none", prevOp |-> "none", ops |-> 0]

OwnerIdle == glOwner = NoOwner

\* No layer of a shadow map has been drawn: <<>> for a layer, <<m>> once it has
\* been drawn with the view-projection m.
NoDrawn ==
    [spot |-> [i \in 1..kMaxSpotShadows |-> <<>>],
     point |-> [i \in 1..(kMaxPointShadows * 6) |-> <<>>]]

AfterOwnerIdle ==
    /\ shadowDrawn = NoDrawn

AfterLightBufferIdle ==
    /\ OwnerIdle
    /\ AfterOwnerIdle

AfterWorkgroupIdle ==
    /\ LightBufferIdle
    /\ AfterLightBufferIdle

AfterCascadesIdle ==
    /\ WorkgroupIdle
    /\ AfterWorkgroupIdle

LateIdle ==
    /\ CascadeIdle
    /\ AfterCascadesIdle

\* No light has been transformed, no volume pass has run.
VolumeIdle ==
    /\ viewLights = <<>>
    /\ cameraInsideLightVolume_ = FALSE
    /\ volumeCullFace = "none"

\* No fragment of the composite pass has been shaded.
NoTexel == [light |-> <<0, 0, 0>>, albedo |-> <<0, 0, 0>>, metal |-> 0,
            normal |-> <<0, 0, 0>>, rough |-> 0, depth |-> 0,
            shadowMapDepth |-> 0, cascade |-> 0, shadow |-> 0]
NoColor == [fn |-> "none", rgb |-> <<0, 0, 0>>]
CompositeIdle ==
    /\ uDebugMode = 0
    /\ texel = NoTexel
    /\ FragColor = NoColor

\* A MeshBuffer as constructed, before any call.
NoMeshCall == [op |-> "none", uploads |-> 0, nVertices |-> 0, nIndices |-> 0, ret |-> FALSE,
               uploadOps |-> <<>>, drawOps |-> <<>>]
MeshIdle ==
    /\ meshBuf = [vao_ |-> 0, vbo_ |-> 0, ebo_ |-> 0, indexCount_ |-> 0]
    /\ meshNames = 0
    /\ meshCall = NoMeshCall

\* A ShaderProgram as constructed, before any call.
BuildOk == [read1 |-> TRUE, read2 |-> TRUE, compile1 |-> "ok", compile2 |-> "ok",
            create |-> TRUE, link |-> TRUE]
NoProgCall == [op |-> "none", builds |-> 0, outcome |-> BuildOk, prevId |-> 0,
               ret |-> FALSE, ops |-> <<>>]
ProgramIdle ==
    /\ programId_ = 0
    /\ progNames = 0
    /\ progCall = NoProgCall

MiscIdle ==
    /\ VolumeIdle
    /\ CompositeIdle
    /\ MeshIdle
    /\ ProgramIdle
    /\ LateIdle

\* Everything outside the engine, the tile buffers and the shadow registration.
ExtIdle ==
    /\ ShadowGlIdle
    /\ GlEnvIdle
    /\ MiscIdle

\* ShadowSystem as constructed: counts 0, value-initialised matrix arrays.
ShadowIdle ==
    /\ spotShadowCount_ = 0 /\ pointShadowCount_ = 0 /\ frameIndex_ = 0
    /\ spotShadowViewProj_ = [i \in 0..(kMaxSpotShadows - 1) |-> "mat4{}"]
    /\ spotShadowMatrices_ = [i \in 0..(kMaxSpotShadows - 1) |-> "mat4{}"]
    /\ pointShadowViewProj_ = [i \in 0..(kMaxPointShadows - 1) |-> "mat4{}"]
    /\ spotCalls = <<>> /\ pointCalls = <<>> /\ lastCall = "none" /\ lastRet = 0
    /\ prevSpotCalls = 0

\* RenderEngine(width, height) as constructed, on context c.
Constructed(c, w, h) ==
    /\ glCaps = c
    /\ window_ = FALSE /\ glContext_ = FALSE
    /\ width_ = w /\ height_ = h
    /\ zoom_ = 1000 /\ middleDragging_ = FALSE /\ debugView_ = 0
    /\ dispatchCompute_ = FALSE /\ memoryBarrier_ = FALSE
    /\ rendererPath_ = "SimpleForward" /\ sceneReady_ = FALSE
    /\ builtShaders = {}
    /\ tiled = NoTiled /\ deferred = NoDeferred
    /\ lightsSize = 0 /\ lightCounts = NoLights
    /\ pc = "idle" /\ running = FALSE
    /\ detectLog = <<>> /\ detectCalls = 0
    /\ opsSinceSwap = <<>> /\ lastFrameOps = <<>> /\ eventsHandled = 0
    /\ validMeshes = {} /\ lastInitRet = "none"

Init ==
    /\ \E c \in ContextProfiles : \E w, h \in {tileSize_, tileSize_ + 1} :
           Constructed(c, w, h)
    /\ TilesIdle
    /\ ShadowIdle
    /\ ExtIdle

(***************************************************************************)
(* RenderEngine::run and direct init() calls                               *)
(***************************************************************************)
\* A client calls init() outside run().
CallInit ==
    /\ pc = "idle"
    /\ \E ret \in BOOLEAN : InitCall(ret)
    /\ UNCHANGED <<pc, running, opsSinceSwap, lastFrameOps, eventsHandled>>

\* run(): init(), then the loop is entered iff init() returned true.
RunStart ==
    /\ pc = "idle"
    /\ \E ret \in BOOLEAN :
           /\ InitCall(ret)
           /\ pc' = IF ret THEN "poll" ELSE "idle"
           /\ running' = IF ret THEN TRUE ELSE running
    /\ UNCHANGED <<opsSinceSwap, lastFrameOps, eventsHandled>>

\* SDL_PollEvent returned an event: handleEvent(event, running)
PollEvent ==
    /\ pc = "poll"
    /\ eventsHandled < MaxEvents
    /\ \E e \in Events : handleEvent(e)
    /\ eventsHandled' = eventsHandled + 1
    /\ UNCHANGED <<pc, detectLog, detectCalls, opsSinceSwap, lastFrameOps>>

\* SDL_PollEvent returned 0: the inner loop ends
PollEmpty ==
    /\ pc = "poll"
    /\ pc' = "render"
    /\ UNCHANGED <<engineVars, running, detectLog, detectCalls, opsSinceSwap,
                   lastFrameOps, eventsHandled>>

\* renderScene()
RenderSceneStep ==
    /\ pc = "render"
    /\ opsSinceSwap' = opsSinceSwap \o renderScene(sceneReady_, rendererPath_, tiled,
                           deferred, lightsSize, dispatchCompute_, memoryBarrier_)
    /\ IF sceneReady_
       THEN /\ lightCounts' = updateLightsCounts(rendererPath_, lightsSize, lightCounts)
            /\ tiled' = updateLightsTiled(rendererPath_, lightsSize, tiled)
            /\ deferred' = IF deferred.gbufferFbo_ = 0 \/ deferred.lightFbo_ = 0
                           THEN deferred
                           ELSE updateLightsDeferred(rendererPath_, lightsSize, deferred)
       ELSE UNCHANGED <<lightCounts, tiled, deferred>>
    /\ pc' = "swap"
    /\ UNCHANGED <<glCaps, window_, glContext_, width_, height_, zoom_, middleDragging_,
                   debugView_, dispatchCompute_, memoryBarrier_, rendererPath_,
                   sceneReady_, builtShaders, lightsSize,
                   running, detectLog, detectCalls, lastFrameOps, eventsHandled>>

\* SDL_GL_SwapWindow(window_), then the test of the loop condition
SwapWindow ==
    /\ pc = "swap"
    /\ lastFrameOps' = opsSinceSwap \o <<"swap">>
    /\ opsSinceSwap' = <<>>
    /\ pc' = IF running THEN "poll" ELSE "idle"
    /\ UNCHANGED <<engineVars, running, detectLog, detectCalls, eventsHandled>>

Next ==
    \/ (CallInit /\ UNCHANGED <<tileVars, shadowVars, extVars>>)
    \/ (RunStart /\ UNCHANGED <<tileVars, shadowVars, extVars>>)
    \/ (PollEvent /\ UNCHANGED <<tileVars, shadowVars, extVars, sceneVars>>)
    \/ (PollEmpty /\ UNCHANGED <<tileVars, shadowVars, extVars, sceneVars>>)
    \/ (RenderSceneStep /\ UNCHANGED <<tileVars, shadowVars, extVars, sceneVars>>)
    \/ (SwapWindow /\ UNCHANGED <<tileVars, shadowVars, extVars, sceneVars>>)

Spec == Init /\ [][Next]_vars

TypeOK ==
    /\ rendererPath_ \in {"SimpleForward", "Deferred41", "TiledCompute"}
    /\ pc \in {"idle", "poll", "render", "swap"}
    /\ window_ \in BOOLEAN /\ glContext_ \in BOOLEAN /\ sceneReady_ \in BOOLEAN
    /\ \A f \in TiledHandles : tiled[f] \in {0, 1}
    /\ \A f \in DeferredHandles : deferred[f] \in {0, 1}

(***************************************************************************)
(* SpecDetect: init() on every context tuple                               *)
(***************************************************************************)
InitDetect ==
    /\ \E c \in GlContexts : Constructed(c, tileSize_, tileSize_)
    /\ TilesIdle
    /\ ShadowIdle
    /\ ExtIdle

NextDetect == CallInit /\ UNCHANGED <<tileVars, shadowVars, extVars>>

SpecDetect == InitDetect /\ [][NextDetect]_vars

(***************************************************************************)
(* C1, C2: capability detection                                            *)
(***************************************************************************)
VersionAtLeast(c, major, minor) ==
    c.major > major \/ (c.major = major /\ c.minor >= minor)

ComputeAvailable(c) ==
    c.hasDispatchCompute /\ c.hasMemoryBarrier /\ VersionAtLeast(c, 4, 3)

\* C1: once detection has run, the path is the stated function of the context tuple:
\* TiledCompute iff both entry points are present and the version is >= 4.3, otherwise
\* Deferred41 iff the version is >= 4.1, otherwise SimpleForward; exactly one path.
C1_PathIsFunctionOfContext ==
    detectCalls > 0 =>
        /\ (rendererPath_ = "TiledCompute") <=> ComputeAvailable(glCaps)
        /\ (rendererPath_ = "Deferred41") <=>
               (~ComputeAvailable(glCaps) /\ VersionAtLeast(glCaps, 4, 1))
        /\ (rendererPath_ = "SimpleForward") <=>
               (~ComputeAvailable(glCaps) /\ ~VersionAtLeast(glCaps, 4, 1))
        /\ Cardinality({p \in {"TiledCompute", "Deferred41", "SimpleForward"} :
                           rendererPath_ = p}) = 1

\* C1 witness: a 4.3+ context that lacks one entry point is routed to Deferred41.
C1_Witness ==
    /\ detectCalls > 0
    /\ VersionAtLeast(glCaps, 4, 3)
    /\ glCaps.hasDispatchCompute /\ ~glCaps.hasMemoryBarrier
    /\ rendererPath_ = "Deferred41"

IsBarrier(op) == op \in {"barrier:TEXTURE_FETCH", "barrier:SHADER_STORAGE"}
StagesOnly(ops) == SelectSeq(ops, LAMBDA op : ~IsBarrier(op))
OpsOf(ops) == {ops[i] : i \in 1..Len(ops)}

TierOnly(ops) ==
    \A i \in 1..Len(ops) : ops[i] # "swap" => rendererPath_ \in StageTier(ops[i])

NothingAllocatedForOtherTiers ==
    /\ rendererPath_ # "TiledCompute" =>
           /\ \A f \in TiledHandles : tiled[f] = 0
           /\ tiled.tilesX_ = 0 /\ tiled.tilesY_ = 0
    /\ rendererPath_ # "Deferred41" =>
           \A f \in DeferredHandles : deferred[f] = 0

\* C3: once init() has selected rendererPath_ it never changes (events, frames,
\* repeated init() calls); every frame issues stages of that tier only; and resources
\* of a tier exist only when that tier is the active one.
C3_PathFixedAndExclusive ==
    /\ [](TierOnly(opsSinceSwap) /\ TierOnly(lastFrameOps)
          /\ NothingAllocatedForOtherTiers)
    /\ [][detectCalls > 0 => rendererPath_' = rendererPath_]_vars

\* C3 witness: a deferred-tier engine that handled a resize and completed a frame
\* at the new size.
C3_Witness ==
    /\ rendererPath_ = "Deferred41"
    /\ eventsHandled > 0
    /\ width_ = tileSize_ + 1 /\ deferred.deferredWidth_ = tileSize_ + 1
    /\ "compositePass" \in OpsOf(lastFrameOps)
    /\ pc = "poll"

TiledStageOrder ==
    <<"updateLights", "depthPrepass", "dispatchDepthMinMax", "dispatchLightCulling",
      "litScene">>

\* C4: in the TiledCompute tier every rendered frame issues its stages in the fixed
\* order, each once; the swap follows the shading pass; and no stage is issued between
\* a swap and the next renderScene (frames do not overlap).
C4_TiledStageOrder ==
    (rendererPath_ = "TiledCompute" /\ sceneReady_) =>
        /\ pc = "swap" => StagesOnly(opsSinceSwap) = TiledStageOrder
        /\ pc # "swap" => opsSinceSwap = <<>>
        /\ lastFrameOps # <<>> =>
               StagesOnly(lastFrameOps) = TiledStageOrder \o <<"swap">>

\* C4 witness: a second tiled frame has rendered and awaits its swap.
C4_Witness ==
    /\ rendererPath_ = "TiledCompute" /\ sceneReady_
    /\ pc = "swap"
    /\ StagesOnly(lastFrameOps) = TiledStageOrder \o <<"swap">>
    /\ StagesOnly(opsSinceSwap) = TiledStageOrder

\* In ops, every producer is followed by its barrier, with no consumer in between.
Barriered(ops, producer, barrier, consumer) ==
    \A i \in 1..Len(ops) :
        ops[i] = producer =>
            \E k \in (i + 1)..Len(ops) :
                /\ ops[k] = barrier
                /\ \A j \in (i + 1)..(k - 1) : ops[j] # consumer

FrameBarriered(ops) ==
    /\ Barriered(ops, "depthPrepass", "barrier:TEXTURE_FETCH", "dispatchDepthMinMax")
    /\ Barriered(ops, "dispatchDepthMinMax", "barrier:SHADER_STORAGE",
                 "dispatchLightCulling")
    /\ Barriered(ops, "dispatchLightCulling", "barrier:SHADER_STORAGE", "litScene")

\* C5: in every tiled frame the texture-fetch barrier separates the depth pre-pass
\* from the depth min/max dispatch, and a shader-storage barrier separates each compute
\* dispatch from the stage that reads its output.
C5_BarriersBetweenStages ==
    rendererPath_ = "TiledCompute" =>
        /\ FrameBarriered(opsSinceSwap)
        /\ FrameBarriered(lastFrameOps)

\* C5 witness: a completed tiled frame in which all three producers ran.
C5_Witness ==
    /\ rendererPath_ = "TiledCompute"
    /\ {"depthPrepass", "dispatchDepthMinMax", "dispatchLightCulling", "litScene", "swap"}
           \subseteq OpsOf(lastFrameOps)

(***************************************************************************)
(* Tiled path, GPU side: buffers                                           *)
(***************************************************************************)
Uninit == -1            \* content of a buffer element never written since glBufferData(nullptr)

TileCount(t) == t.tilesX_ * t.tilesY_

\* ensureLightingResources: the TileMeta array uploaded to tileMetaSsbo_
AllocTileMeta(tileCount) ==
    [i \in 0..(tileCount - 1) |-> [offset |-> i * maxLightsPerTile_, count |-> 0]]

\* ensureLightingResources: tileIndexSsbo_ and tileDepthSsbo_ get storage without data
AllocTileIndices(tileCount) ==
    [k \in 0..(tileCount * maxLightsPerTile_ - 1) |-> Uninit]

AllocTileDepth(tileCount) ==
    [i \in 0..(tileCount - 1) |-> <<Uninit, Uninit>>]

\* ensureLightingResources: depthTexture_ gets storage of the window size without data
Pixels(w, h) == (0..(w - 1)) \X (0..(h - 1))
AllocDepthTexture(w, h) == [p \in Pixels(w, h) |-> Uninit]

(***************************************************************************)
(* Depth pre-pass: what the rasteriser leaves in the depth texture         *)
(***************************************************************************)
DepthOne == 1000000         \* depth 1.0 in millionths (the clear value)
kDepthEpsilon == 999999     \* kDepthEpsilon = 0.999999f in millionths
WallDepth == DepthOne \div 4
GroundDepth == 3 * (DepthOne \div 4)
FarDepth == kDepthEpsilon   \* geometry at the far plane: >= kDepthEpsilon, < 1.0

\* The scene as seen by the camera, by pixel column: columns [0, a) show a wall,
\* the columns right of it the ground, far-plane geometry or nothing. The wall ends
\* at the left edge, after one column, at the first tile boundary or at the right edge.
Views(w) == [a : {0, 1, tileSize_, w} \cap (0..w), rest : {"ground", "far", "none"}]

\* renderDepthPrepass: glClear(GL_DEPTH_BUFFER_BIT), then the draws inside the
\* viewport (0, 0, width_, height_).
DepthAfterPrepass(v, w, h, tex) ==
    [p \in DOMAIN tex |->
        IF p[1] >= w \/ p[2] >= h THEN DepthOne
        ELSE IF p[1] < v.a THEN WallDepth
        ELSE IF v.rest = "ground" THEN GroundDepth
        ELSE IF v.rest = "far" THEN FarDepth
        ELSE DepthOne]

(***************************************************************************)
(* depthMinMaxShader                                                       *)
(***************************************************************************)
TILE_PIXELS == tileSize_ * tileSize_

TileXY(tileIndex, tilesX) == <<tileIndex % tilesX, tileIndex \div tilesX>>

\* One invocation up to the first barrier(): its depth sample and validity.
\* idx is gl_LocalInvocationIndex; screen is uScreenSize.
LocalSample(tile, idx, screen, tex) ==
    LET pixel == <<tile[1] * tileSize_ + (idx % tileSize_),
                   tile[2] * tileSize_ + (idx \div tileSize_)>>
        inScreen == pixel[1] < screen[1] /\ pixel[2] < screen[2]
        depth == IF inScreen THEN tex[pixel] ELSE DepthOne
    IN  [depth |-> depth, valid |-> inScreen /\ depth < kDepthEpsilon]

\* One iteration of the reduction loop between two barrier() calls.
ReduceStep(sMin, sMax, stride) ==
    [sMin |-> [idx \in DOMAIN sMin |->
                  IF idx < stride THEN Min(sMin[idx], sMin[idx + stride]) ELSE sMin[idx]],
     sMax |-> [idx \in DOMAIN sMax |->
                  IF idx < stride THEN Max(sMax[idx], sMax[idx + stride]) ELSE sMax[idx]]]

RECURSIVE ReduceLoop(_, _, _)
ReduceLoop(sMin, sMax, stride) ==
    IF stride > 0
    THEN LET r == ReduceStep(sMin, sMax, stride)
         IN  ReduceLoop(r.sMin, r.sMax, stride \div 2)
    ELSE <<sMin[0], sMax[0]>>

\* The work group of one tile: what invocation 0 stores to tileDepth[tileIndex].
DepthMinMaxGroup(tile, screen, tex) ==
    LET sMin == [idx \in 0..(TILE_PIXELS - 1) |->
                    LET s == LocalSample(tile, idx, screen, tex)
                    IN  IF s.valid THEN s.depth ELSE DepthOne]
        sMax == [idx \in 0..(TILE_PIXELS - 1) |->
                    LET s == LocalSample(tile, idx, screen, tex)
                    IN  IF s.valid THEN s.depth ELSE 0]
    IN  ReduceLoop(sMin, sMax, TILE_PIXELS \div 2)

\* dispatchCompute_(tilesX_, tilesY_, 1) of depthMinMaxCompute_
DepthMinMaxDispatch(t, screen, tex, td) ==
    [i \in DOMAIN td |-> DepthMinMaxGroup(TileXY(i, t.tilesX_), screen, tex)]

(***************************************************************************)
(* lightCullShader                                                         *)
(***************************************************************************)
kBaseOrthoSize == 10
zNear == 1
zFar == 100
Big == 1000000000           \* stands for the 1e20 of the shader's AABB seed

\* uInvProj * vec4(ndc, 1) for the glm::ortho of updateProjection at zoom 1, with
\* ndc.xy = (pixel / uScreenSize) * 2 - 1 and ndc.z = depth * 2 - 1; integer floor.
\* projW and projH are the width_ and height_ of the time updateProjection ran.
Unproject(pixel, depth, screen, projW, projH) ==
    LET aspectDen == IF projH > 0 THEN projH ELSE 1
    IN  <<((2 * pixel[1] - screen[1]) * kBaseOrthoSize * projW) \div (screen[1] * aspectDen),
          ((2 * pixel[2] - screen[2]) * kBaseOrthoSize) \div screen[2],
          0 - (zNear + ((zFar - zNear) * depth) \div DepthOne)>>

MinOf(S) == CHOOSE x \in S : \A y \in S : x <= y
MaxOf(S) == CHOOSE x \in S : \A y \in S : x >= y

\* The calls expandAabb(minV, maxV, p) over a set of points p, from the seed
\* minV = vec3(1e20), maxV = vec3(-1e20).
expandAabb(corners) ==
    LET Lo(k) == MinOf({Big} \cup {c[k] : c \in corners})
        Hi(k) == MaxOf({0 - Big} \cup {c[k] : c \in corners})
    IN  [minV |-> <<Lo(1), Lo(2), Lo(3)>>, maxV |-> <<Hi(1), Hi(2), Hi(3)>>]

\* The view-space box of a tile with depth range <<dMin, dMax>>.
TileAabb(tile, depthRange, screen) ==
    LET pixelMin == <<tile[1] * tileSize_, tile[2] * tileSize_>>
        pixelMax == <<Min(pixelMin[1] + tileSize_, screen[1]),
                      Min(pixelMin[2] + tileSize_, screen[2])>>
    IN  expandAabb({Unproject(<<px, py>>, d, screen, screen[1], screen[2]) :
                        px \in {pixelMin[1], pixelMax[1]},
                        py \in {pixelMin[2], pixelMax[2]},
                        d \in {depthRange[1], depthRange[2]}})

\* dot(delta, delta) <= radius * radius with closest = clamp(center, minV, maxV)
SphereTouchesAabb(light, box) ==
    LET center == light.positionRadius
        D(k) == center[k] - Min(Max(center[k], box.minV[k]), box.maxV[k])
        delta == <<D(1), D(2), D(3)>>
    IN  delta[1] * delta[1] + delta[2] * delta[2] + delta[3] * delta[3]
            <= center[4] * center[4]

\* Mutant of CullLoop: stores the slot number instead of the light index.
RECURSIVE CullLoop_StoresSlot(_, _, _, _, _, _)
CullLoop_StoresSlot(i, uLightCount, lights, box, offset, acc) ==
    IF i < uLightCount
    THEN IF SphereTouchesAabb(lights[i + 1], box) /\ acc.count < maxLightsPerTile_
         THEN CullLoop_StoresSlot(i + 1, uLightCount, lights, box, offset,
                       [count |-> acc.count + 1,
                        writes |-> Append(acc.writes, <<offset + acc.count, acc.count>>)])
         ELSE CullLoop_StoresSlot(i + 1, uLightCount, lights, box, offset, acc)
    ELSE acc

\* Mutant of CullLoop: capacity test count <= uMaxLightsPerTile.
RECURSIVE CullLoop_OffByOne(_, _, _, _, _, _)
CullLoop_OffByOne(i, uLightCount, lights, box, offset, acc) ==
    IF i < uLightCount
    THEN IF SphereTouchesAabb(lights[i + 1], box) /\ acc.count <= maxLightsPerTile_
         THEN CullLoop_OffByOne(i + 1, uLightCount, lights, box, offset,
                       [count |-> acc.count + 1,
                        writes |-> Append(acc.writes, <<offset + acc.count, i>>)])
         ELSE CullLoop_OffByOne(i + 1, uLightCount, lights, box, offset, acc)
    ELSE acc

\* for (int i = 0; i < uLightCount; ++i) { ... }: acc is [count, writes], writes the
\* stores lightIndices[element] = value in program order.
RECURSIVE CullLoop(_, _, _, _, _, _)
CullLoop(i, uLightCount, lights, box, offset, acc) ==
    IF i < uLightCount
    THEN IF SphereTouchesAabb(lights[i + 1], box) /\ acc.count < maxLightsPerTile_
         THEN CullLoop(i + 1, uLightCount, lights, box, offset,
                       [count |-> acc.count + 1,
                        writes |-> Append(acc.writes, <<offset + acc.count, i>>)])
         ELSE CullLoop(i + 1, uLightCount, lights, box, offset, acc)
    ELSE acc

\* Mutant of CullInvocation: the empty-tile early return leaves tiles[].count alone.
CullInvocation_KeepsCount(tileIndex, t, screen, lights, uLightCount, td, meta) ==
    IF td[tileIndex][1] > td[tileIndex][2]
    THEN [count |-> meta[tileIndex].count, writes |-> <<>>]
    ELSE CullLoop(0, uLightCount, lights,
                  TileAabb(TileXY(tileIndex, t.tilesX_), td[tileIndex], screen),
                  meta[tileIndex].offset, [count |-> 0, writes |-> <<>>])

\* main() of one invocation: the value it stores to tiles[tileIndex].count and its
\* stores to lightIndices.
CullInvocation(tileIndex, t, screen, lights, uLightCount, td, meta) ==
    IF td[tileIndex][1] > td[tileIndex][2]
    THEN [count |-> 0, writes |-> <<>>]
    ELSE CullLoop(0, uLightCount, lights,
                  TileAabb(TileXY(tileIndex, t.tilesX_), td[tileIndex], screen),
                  meta[tileIndex].offset, [count |-> 0, writes |-> <<>>])

\* The stores of a sequence of invocations applied to lightIndices.
RECURSIVE ApplyWrites(_, _)
ApplyWrites(indices, writes) ==
    IF writes = <<>> THEN indices
    ELSE LET w == Head(writes)
         IN  ApplyWrites(IF w[1] \in DOMAIN indices
                         THEN [indices EXCEPT ![w[1]] = w[2]] ELSE indices,
                         Tail(writes))

RECURSIVE AllWrites(_)
AllWrites(r) ==
    IF r = <<>> THEN <<>> ELSE Head(r).writes \o AllWrites(Tail(r))

\* The invocations of tiles i, i + 1, ... of one dispatch, as a sequence.
RECURSIVE CullInvocations(_, _, _, _, _, _, _)
CullInvocations(i, t, screen, lights, uLightCount, td, meta) ==
    IF i \in DOMAIN meta
    THEN <<CullInvocation(i, t, screen, lights, uLightCount, td, meta)>>
             \o CullInvocations(i + 1, t, screen, lights, uLightCount, td, meta)
    ELSE <<>>

\* dispatchCompute_(tilesX_, tilesY_, 1) of lightCullCompute_: every invocation reads
\* lights, tileDepth and its own tiles[].offset, none reads lightIndices or another
\* invocation's stores.
CullDispatch(t, screen, lights, uLightCount, td, meta, indices) ==
    LET r == CullInvocations(0, t, screen, lights, uLightCount, td, meta)
    IN  [tileMeta |-> [i \in DOMAIN meta |-> [meta[i] EXCEPT !.count = r[i + 1].count]],
         lightIndices |-> ApplyWrites(indices, AllWrites(r)),
         cullWrites |-> [i \in DOMAIN meta |->
                            {r[i + 1].writes[j][1] : j \in 1..Len(r[i + 1].writes)}]]

(***************************************************************************)
(* SpecTiles: the tiled path's buffers across resizes and frames           *)
(***************************************************************************)
\* positionRadius of the lights updateLights uploads: a small light near the left
\* wall, a large one in the middle of the view volume.
LightChoices ==
    {[positionRadius |-> <<0 - 15, 0, 0 - 25, 5>>],
     [positionRadius |-> <<0, 0, 0 - 50, 100>>]}

\* Window heights delivered by SIZE_CHANGED in SpecTiles: one whole tile.
WindowHeights == {tileSize_}

ComputeContext ==
    [major |-> 4, minor |-> 3, hasDispatchCompute |-> TRUE, hasMemoryBarrier |-> TRUE]

\* The buffers as ensureLightingResources leaves them after (re)allocation.
TilesAllocated(w, h, t) ==
    /\ depthTex' = AllocDepthTexture(w, h)
    /\ tileMeta' = AllocTileMeta(TileCount(t))
    /\ lightIndices' = AllocTileIndices(TileCount(t))
    /\ tileDepth' = AllocTileDepth(TileCount(t))
    /\ cullWrites' = [i \in 0..(TileCount(t) - 1) |-> {}]

\* The engine after a successful init() on a compute-capable context, with n lights.
InitTiles ==
    \E w \in WindowSizes \ {0}, h \in WindowHeights \ {0}, n \in 0..MaxLights :
        LET det == detectLightingCapabilities(4, 3, TRUE, TRUE)
            t == ensureLightingResources(det.path, w, h, NoTiled)
        IN  /\ glCaps = ComputeContext
            /\ window_ = TRUE /\ glContext_ = TRUE
            /\ width_ = w /\ height_ = h
            /\ zoom_ = 1000 /\ middleDragging_ = FALSE /\ debugView_ = 0
            /\ dispatchCompute_ = TRUE /\ memoryBarrier_ = TRUE
            /\ rendererPath_ = det.path /\ sceneReady_ = TRUE
            /\ builtShaders = {TierShaders(det.path)[k] :
                                   k \in 1..Len(TierShaders(det.path))}
            /\ tiled = t /\ deferred = NoDeferred
            /\ lightsSize = n /\ lightCounts = NoLights
            /\ pc = "poll" /\ running = TRUE
            /\ detectLog = det.logs /\ detectCalls = 1
            /\ opsSinceSwap = <<>> /\ lastFrameOps = <<>> /\ eventsHandled = 0
            /\ depthTex = AllocDepthTexture(w, h)
            /\ gpuLights = <<>>
            /\ tileMeta = AllocTileMeta(TileCount(t))
            /\ lightIndices = AllocTileIndices(TileCount(t))
            /\ tileDepth = AllocTileDepth(TileCount(t))
            /\ cullWrites = [i \in 0..(TileCount(t) - 1) |-> {}]
            /\ ShadowIdle
            /\ ExtIdle
            /\ validMeshes = {SceneMeshes[i] : i \in 1..Len(SceneMeshes)}
            /\ lastInitRet = "true"

\* handleEvent(SDL_WINDOWEVENT_SIZE_CHANGED): width_, height_, updateProjection()
TilesResize ==
    /\ pc = "poll"
    /\ \E w \in WindowSizes, h \in WindowHeights :
        /\ handleEvent([type |-> "WINDOWEVENT", event |-> "SIZE_CHANGED",
                        data1 |-> w, data2 |-> h])
        /\ IF tiled' # tiled
           THEN TilesAllocated(w, h, tiled')
           ELSE UNCHANGED <<depthTex, tileMeta, lightIndices, tileDepth, cullWrites>>
    /\ UNCHANGED <<gpuLights, pc, detectLog, detectCalls, opsSinceSwap, lastFrameOps,
                   eventsHandled>>

\* renderScene, TiledCompute: updateLights()
TilesUpdateLights ==
    /\ pc = "poll"
    /\ sceneReady_ /\ rendererPath_ = "TiledCompute"
    /\ IF lightsSize = 0
       THEN /\ lightCounts' = NoLights
            /\ UNCHANGED <<gpuLights, tiled>>
       ELSE /\ gpuLights' \in [1..lightsSize -> LightChoices]
            /\ lightCounts' = [lightCount_ |-> lightsSize, pointLightCount_ |-> lightsSize,
                               spotLightCount_ |-> 0]
            /\ tiled' = updateLightsTiled(rendererPath_, lightsSize, tiled)
    /\ pc' = "depthPrepass"
    /\ UNCHANGED <<glCaps, window_, glContext_, width_, height_, zoom_, middleDragging_,
                   debugView_, dispatchCompute_, memoryBarrier_, rendererPath_,
                   sceneReady_, builtShaders, deferred, lightsSize,
                   running, detectLog, detectCalls, opsSinceSwap, lastFrameOps,
                   eventsHandled,
                   depthTex, tileDepth, tileMeta, lightIndices, cullWrites>>

\* renderScene, TiledCompute: renderDepthPrepass()
TilesDepthPrepass ==
    /\ pc = "depthPrepass"
    /\ tiled.depthFbo_ # 0
    /\ \E v \in Views(width_) :
           depthTex' = DepthAfterPrepass(v, width_, height_, depthTex)
    /\ pc' = "depthMinMax"
    /\ UNCHANGED <<engineVars, running, detectLog, detectCalls, opsSinceSwap,
                   lastFrameOps, eventsHandled,
                   gpuLights, tileDepth, tileMeta, lightIndices, cullWrites>>

\* renderScene, TiledCompute: dispatchDepthMinMax()
TilesDepthMinMax ==
    /\ pc = "depthMinMax"
    /\ dispatchCompute_ /\ tiled.tileDepthSsbo_ # 0
    /\ tileDepth' = DepthMinMaxDispatch(tiled, <<width_, height_>>, depthTex, tileDepth)
    /\ pc' = "lightCulling"
    /\ UNCHANGED <<engineVars, running, detectLog, detectCalls, opsSinceSwap,
                   lastFrameOps, eventsHandled,
                   depthTex, gpuLights, tileMeta, lightIndices, cullWrites>>

\* The buffers after a culling dispatch with result r.
CullStored(r) ==
    /\ tileMeta' = r.tileMeta
    /\ lightIndices' = r.lightIndices
    /\ cullWrites' = r.cullWrites

\* renderScene, TiledCompute: dispatchLightCulling()
TilesLightCulling ==
    /\ pc = "lightCulling"
    /\ dispatchCompute_ /\ tiled.tileMetaSsbo_ # 0
    /\ CullStored(CullDispatch(tiled, <<width_, height_>>, gpuLights,
                               lightCounts.lightCount_, tileDepth, tileMeta, lightIndices))
    /\ pc' = "lit"
    /\ UNCHANGED <<engineVars, running, detectLog, detectCalls, opsSinceSwap,
                   lastFrameOps, eventsHandled, depthTex, gpuLights, tileDepth>>

\* renderScene, TiledCompute: renderLitScene(), then SDL_GL_SwapWindow
TilesLit ==
    /\ pc = "lit"
    /\ pc' = "poll"
    /\ UNCHANGED <<engineVars, running, detectLog, detectCalls, opsSinceSwap,
                   lastFrameOps, eventsHandled, tileVars>>

NextTiles ==
    \/ (TilesResize /\ UNCHANGED <<shadowVars, extVars, sceneVars>>)
    \/ (TilesUpdateLights /\ UNCHANGED <<shadowVars, extVars, sceneVars>>)
    \/ (TilesDepthPrepass /\ UNCHANGED <<shadowVars, extVars, sceneVars>>)
    \/ (TilesDepthMinMax /\ UNCHANGED <<shadowVars, extVars, sceneVars>>)
    \/ (TilesLightCulling /\ UNCHANGED <<shadowVars, extVars, sceneVars>>)
    \/ (TilesLit /\ UNCHANGED <<shadowVars, extVars, sceneVars>>)

SpecTiles == InitTiles /\ [][NextTiles]_vars

(***************************************************************************)
(* C6, C7, C8: tile metadata, light lists, empty tiles                     *)
(***************************************************************************)
TileIds == DOMAIN tileMeta

\* The elements of lightIndices that belong to tile i.
TileSlice(i) == {tileMeta[i].offset + j : j \in 0..(maxLightsPerTile_ - 1)}

TileSlicesDisjoint ==
    /\ TileIds = 0..(TileCount(tiled) - 1)
    /\ DOMAIN lightIndices = 0..(TileCount(tiled) * maxLightsPerTile_ - 1)
    /\ \A i \in TileIds :
           /\ tileMeta[i].offset = i * maxLightsPerTile_
           /\ tileMeta[i].count <= maxLightsPerTile_
           /\ TileSlice(i) \subseteq DOMAIN lightIndices
           /\ cullWrites[i] \subseteq TileSlice(i)
    /\ \A i, j \in TileIds :
           i # j => /\ TileSlice(i) \cap TileSlice(j) = {}
                    /\ cullWrites[i] \cap cullWrites[j] = {}

\* C6: tile i owns the slice [i * maxLightsPerTile, (i + 1) * maxLightsPerTile) of the
\* index buffer, whose size is tileCount * maxLightsPerTile; its count never exceeds
\* maxLightsPerTile; slices of different tiles are disjoint; a culling dispatch leaves
\* every offset as it is, and no two invocations store to the same element.
C6_TileSlicesDisjoint ==
    /\ []TileSlicesDisjoint
    /\ [][pc = "lightCulling" =>
             \A i \in TileIds : tileMeta'[i].offset = tileMeta[i].offset]_vars

\* Two tiles stored indices in the same dispatch, the first one up to its capacity.
C6_Witness ==
    /\ pc = "lit"
    /\ \E i, j \in TileIds :
           /\ j = i + 1
           /\ tileMeta[i].count = maxLightsPerTile_
           /\ Cardinality(cullWrites[i]) = maxLightsPerTile_
           /\ cullWrites[j] # {}

NonEmptyDepth(i) == tileDepth[i][1] <= tileDepth[i][2]

\* The lights whose sphere touches the view-space box of tile i.
Passing(i) ==
    {l \in 0..(lightCounts.lightCount_ - 1) :
        SphereTouchesAabb(gpuLights[l + 1],
                          TileAabb(TileXY(i, tiled.tilesX_), tileDepth[i],
                                   <<width_, height_>>))}

\* Tile i lists the first min(k, maxLightsPerTile) passing lights in ascending order.
ListsFirstPassing(i) ==
    LET P == Passing(i)
        c == tileMeta[i].count
    IN  /\ c = Min(Cardinality(P), maxLightsPerTile_)
        /\ cullWrites[i] = {tileMeta[i].offset + j : j \in 0..(c - 1)}
        /\ \A j \in 0..(c - 1) :
               LET v == lightIndices[tileMeta[i].offset + j]
               IN  v \in P /\ Cardinality({q \in P : q < v}) = j

\* C7: after the culling dispatch, a tile with a non-empty depth interval holds in its
\* slice the ascending sequence of the first min(k, maxLightsPerTile) indices of the k
\* lights that pass the sphere/AABB test, its count is that length, and the dispatch
\* stored nothing else for it; lights that do not pass are never listed and passing
\* lights beyond the capacity are dropped.
C7_ListsFirstPassingLights ==
    pc = "lit" => \A i \in TileIds : NonEmptyDepth(i) => ListsFirstPassing(i)

\* One tile overflows its capacity while another skips a light with a lower index.
C7_Witness ==
    /\ pc = "lit"
    /\ \E i, j \in TileIds :
           /\ NonEmptyDepth(i) /\ Cardinality(Passing(i)) > maxLightsPerTile_
           /\ NonEmptyDepth(j) /\ tileMeta[j].count > 0
           /\ 0 \notin Passing(j)
           /\ lightIndices[tileMeta[j].offset] > 0

\* The pixels of tile i inside the screen.
TileScreenPixels(i) ==
    LET tile == TileXY(i, tiled.tilesX_)
    IN  {p \in {<<tile[1] * tileSize_ + dx, tile[2] * tileSize_ + dy>> :
                    dx \in 0..(tileSize_ - 1), dy \in 0..(tileSize_ - 1)} :
            p[1] < width_ /\ p[2] < height_}

NoValidSample(i) == \A p \in TileScreenPixels(i) : depthTex[p] >= kDepthEpsilon

\* C8: a tile none of whose in-screen pixels has a depth below DEPTH_EPSILON gets
\* min > max from the reduction, and the culling dispatch sets its count to 0 and
\* stores no index for it, whatever its count was before.
C8_EmptyTileCountZero ==
    pc = "lit" =>
        \A i \in TileIds :
            NoValidSample(i) => /\ tileDepth[i][1] > tileDepth[i][2]
                                /\ tileMeta[i].count = 0
                                /\ cullWrites[i] = {}

\* A tile that listed a light in an earlier frame and now has only far-plane depth.
C8_Witness ==
    /\ pc = "lit"
    /\ \E i \in TileIds :
           /\ TileScreenPixels(i) # {}
           /\ \A p \in TileScreenPixels(i) : depthTex[p] = kDepthEpsilon
           /\ lightIndices[tileMeta[i].offset] # Uninit
           /\ tileMeta[i].count = 0

(***************************************************************************)
(* ShadowSystem: beginFrame, registerSpotShadow, registerPointShadow       *)
(***************************************************************************)
kSpotNearPlane == 1         \* 0.1f, in tenths
kPointNearPlane == 1        \* 0.1f, in tenths

\* SpotShadowDesc / PointShadowDesc values: lengths in tenths, angles in degrees. The
\* radii lie on both sides of the 0.2 floor of the far plane.
SpotShadowDescs ==
    {[position |-> <<0, 40, 0>>, direction |-> <<0, 0 - 1, 0>>, radius |-> r,
      outerAngleDeg |-> 25] : r \in {1, 80}}
PointShadowDescs == {[position |-> <<0, 12, 0>>, radius |-> r] : r \in {1, 60}}
InvViews == {"invView"}

\* lightProj * lightView of registerSpotShadow, by the values it is built from.
SpotViewProj(desc) ==
    [eye |-> desc.position, dir |-> desc.direction, fovDeg |-> desc.outerAngleDeg * 2,
     near |-> kSpotNearPlane, far |-> Max(desc.radius, 2)]

\* The six lightProj * lightView of registerPointShadow, one per cube face.
PointViewProj(desc) ==
    [face \in 0..5 |-> [eye |-> desc.position, face |-> face, fovDeg |-> 90,
                        near |-> kPointNearPlane, far |-> Max(desc.radius, 2)]]

\* Mutant of beginFrame: the spot count survives the frame boundary.
beginFrame_KeepsSpotCount(spotCount, pointCount, frameIndex) ==
    [spotShadowCount_ |-> spotCount, pointShadowCount_ |-> 0,
     frameIndex_ |-> frameIndex + 1]

beginFrame(spotCount, pointCount, frameIndex) ==
    [spotShadowCount_ |-> 0, pointShadowCount_ |-> 0, frameIndex_ |-> frameIndex + 1]

\* Mutant of registerSpotShadow: capacity test with > instead of >=.
registerSpotShadow_OffByOne(spotCount, viewProj, matrices, desc, invView) ==
    IF spotCount > kMaxSpotShadows
    THEN [ret |-> 0 - 1, spotShadowCount_ |-> spotCount,
          spotShadowViewProj_ |-> viewProj, spotShadowMatrices_ |-> matrices]
    ELSE LET idx == spotCount
         IN  [ret |-> idx, spotShadowCount_ |-> spotCount + 1,
              spotShadowViewProj_ |-> IF idx \in DOMAIN viewProj
                                      THEN [viewProj EXCEPT ![idx] = SpotViewProj(desc)]
                                      ELSE viewProj,
              spotShadowMatrices_ |-> IF idx \in DOMAIN matrices
                                      THEN [matrices EXCEPT
                                               ![idx] = <<SpotViewProj(desc), invView>>]
                                      ELSE matrices]

\* registerSpotShadow(desc, invView): the return value and the fields it leaves.
registerSpotShadow(spotCount, viewProj, matrices, desc, invView) ==
    IF spotCount >= kMaxSpotShadows
    THEN [ret |-> 0 - 1, spotShadowCount_ |-> spotCount,
          spotShadowViewProj_ |-> viewProj, spotShadowMatrices_ |-> matrices]
    ELSE LET idx == spotCount
         IN  [ret |-> idx, spotShadowCount_ |-> spotCount + 1,
              spotShadowViewProj_ |-> [viewProj EXCEPT ![idx] = SpotViewProj(desc)],
              spotShadowMatrices_ |-> [matrices EXCEPT
                                          ![idx] = <<SpotViewProj(desc), invView>>]]

\* registerPointShadow(desc): the return value and the fields it leaves.
registerPointShadow(pointCount, viewProj, desc) ==
    IF pointCount >= kMaxPointShadows
    THEN [ret |-> 0 - 1, pointShadowCount_ |-> pointCount,
          pointShadowViewProj_ |-> viewProj]
    ELSE LET idx == pointCount
         IN  [ret |-> idx, pointShadowCount_ |-> pointCount + 1,
              pointShadowViewProj_ |-> [viewProj EXCEPT ![idx] = PointViewProj(desc)]]

(***************************************************************************)
(* SpecShadow: a client calling the ShadowSystem over several frames       *)
(***************************************************************************)
\* The ShadowSystem as constructed, next to an engine that has not been initialised.
InitShadow ==
    /\ Constructed(ComputeContext, tileSize_, tileSize_)
    /\ TilesIdle
    /\ ShadowIdle
    /\ ExtIdle

FrameBegun(r) ==
    /\ spotShadowCount_' = r.spotShadowCount_
    /\ pointShadowCount_' = r.pointShadowCount_
    /\ frameIndex_' = r.frameIndex_

BeginFrame ==
    /\ frameIndex_ < MaxFrames
    /\ FrameBegun(beginFrame(spotShadowCount_, pointShadowCount_, frameIndex_))
    /\ prevSpotCalls' = Len(spotCalls)
    /\ spotCalls' = <<>> /\ pointCalls' = <<>>
    /\ lastCall' = "beginFrame" /\ lastRet' = 0
    /\ UNCHANGED <<spotShadowViewProj_, spotShadowMatrices_, pointShadowViewProj_>>

SpotRegistered(r) ==
    /\ lastRet' = r.ret
    /\ spotShadowCount_' = r.spotShadowCount_
    /\ spotShadowViewProj_' = r.spotShadowViewProj_
    /\ spotShadowMatrices_' = r.spotShadowMatrices_

RegisterSpotShadow ==
    /\ Len(spotCalls) < kMaxSpotShadows + MaxExtraCalls
    /\ \E desc \in SpotShadowDescs, invView \in InvViews :
           /\ SpotRegistered(registerSpotShadow(spotShadowCount_, spotShadowViewProj_,
                                                spotShadowMatrices_, desc, invView))
           /\ spotCalls' = Append(spotCalls, [desc |-> desc, invView |-> invView])
    /\ lastCall' = "registerSpotShadow"
    /\ UNCHANGED <<pointShadowCount_, frameIndex_, pointShadowViewProj_, pointCalls,
                   prevSpotCalls>>

PointRegistered(r) ==
    /\ lastRet' = r.ret
    /\ pointShadowCount_' = r.pointShadowCount_
    /\ pointShadowViewProj_' = r.pointShadowViewProj_

RegisterPointShadow ==
    /\ Len(pointCalls) < kMaxPointShadows + MaxExtraCalls
    /\ \E desc \in PointShadowDescs :
           /\ PointRegistered(registerPointShadow(pointShadowCount_, pointShadowViewProj_,
                                                  desc))
           /\ pointCalls' = Append(pointCalls, desc)
    /\ lastCall' = "registerPointShadow"
    /\ UNCHANGED <<spotShadowCount_, frameIndex_, spotShadowViewProj_,
                   spotShadowMatrices_, spotCalls, prevSpotCalls>>

NextShadow ==
    \/ (BeginFrame /\ UNCHANGED <<engineVars, loopVars, tileVars, extVars, sceneVars>>)
    \/ (RegisterSpotShadow /\ UNCHANGED <<engineVars, loopVars, tileVars, extVars, sceneVars>>)
    \/ (RegisterPointShadow /\ UNCHANGED <<engineVars, loopVars, tileVars, extVars, sceneVars>>)

SpecShadow == InitShadow /\ [][NextShadow]_vars

(***************************************************************************)
(* C9, C10: shadow registration                                            *)
(***************************************************************************)
\* The return value of the k-th registration of a frame with capacity cap.
IndexOfCall(k, cap) == IF k <= cap THEN k - 1 ELSE 0 - 1

ShadowFields ==
    <<spotShadowCount_, pointShadowCount_, frameIndex_, spotShadowViewProj_,
      spotShadowMatrices_, pointShadowViewProj_>>

\* Counts, return values and slot contents in terms of the calls of the frame.
FirstRegisteredWin ==
    /\ spotShadowCount_ = Min(Len(spotCalls), kMaxSpotShadows)
    /\ pointShadowCount_ = Min(Len(pointCalls), kMaxPointShadows)
    /\ lastCall = "registerSpotShadow" =>
           lastRet = IndexOfCall(Len(spotCalls), kMaxSpotShadows)
    /\ lastCall = "registerPointShadow" =>
           lastRet = IndexOfCall(Len(pointCalls), kMaxPointShadows)
    /\ \A i \in 0..(spotShadowCount_ - 1) :
           /\ spotShadowViewProj_[i] = SpotViewProj(spotCalls[i + 1].desc)
           /\ spotShadowMatrices_[i] =
                  <<SpotViewProj(spotCalls[i + 1].desc), spotCalls[i + 1].invView>>
    /\ \A i \in 0..(pointShadowCount_ - 1) :
           pointShadowViewProj_[i] = PointViewProj(pointCalls[i + 1])

\* C9: within a frame the k-th registerSpotShadow call returns k - 1 when
\* k <= kMaxSpotShadows and -1 otherwise, and a call returning -1 changes no field of
\* the ShadowSystem; likewise registerPointShadow with kMaxPointShadows. The counts are
\* min(calls, capacity) and the slots hold the first registered lights.
C9_RegistrationIndices ==
    /\ []FirstRegisteredWin
    /\ [][(lastCall' \in {"registerSpotShadow", "registerPointShadow"} /\ lastRet' = 0 - 1)
             => UNCHANGED ShadowFields]_vars

\* Both kinds were registered beyond their capacity in the same frame.
C9_Witness ==
    /\ Len(spotCalls) > kMaxSpotShadows
    /\ Len(pointCalls) > kMaxPointShadows
    /\ lastRet = 0 - 1
    /\ spotShadowCount_ = kMaxSpotShadows
    /\ pointShadowCount_ = kMaxPointShadows
    /\ spotCalls[1].desc # spotCalls[Len(spotCalls)].desc

\* C10: after every beginFrame both counts are 0, and the first registration of each
\* kind after it returns 0, whatever was registered in earlier frames.
C10_IndicesRestartEachFrame ==
    /\ lastCall = "beginFrame" => spotShadowCount_ = 0 /\ pointShadowCount_ = 0
    /\ (lastCall = "registerSpotShadow" /\ Len(spotCalls) = 1) => lastRet = 0
    /\ (lastCall = "registerPointShadow" /\ Len(pointCalls) = 1) => lastRet = 0
    /\ (lastCall = "registerSpotShadow" /\ Len(spotCalls) <= 3) =>
           lastRet = Len(spotCalls) - 1

\* The third spot light of a frame gets index 2 after a frame that registered three.
C10_Witness ==
    /\ frameIndex_ >= 2
    /\ prevSpotCalls = 3
    /\ Len(spotCalls) = 3
    /\ lastCall = "registerSpotShadow"
    /\ lastRet = 2

(***************************************************************************)
(* ShadowSystem: init, shadow map resources and the render schedule        *)
(***************************************************************************)
MaxUpdateEvery == 2         \* SpecShadowMaps: update intervals 0..MaxUpdateEvery
MaxSchedFrames == 3         \* SpecShadowMaps: beginFrame calls

dirShadowResolution_ == 2048
spotShadowResolution_ == 1024
pointShadowResolution_ == 512
Never == 0 - 1              \* a layer no pass has drawn yet

\* What glGen* / glTexImage3D can leave behind: names and storage, names without
\* storage (GL_OUT_OF_MEMORY), or no names at all (the handles keep their value).
AllocOutcomes == {"ok", "noStorage", "noNames"}

\* Texture array storage of n layers, not drawn yet.
FreshLayers(n) == [i \in 1..n |-> Never]

\* The ensure*Resources body after its guard: names for the texture and the
\* framebuffer, storage for the layers.  No call checks an error or completeness.
AllocShadowMap(map, fbo, outcome, name, n) ==
    [map |-> IF outcome = "noNames" THEN map ELSE name,
     fbo |-> IF outcome = "noNames" THEN fbo ELSE name,
     layers |-> IF outcome = "ok" THEN FreshLayers(n) ELSE <<>>]

ensureDirectionalResources(map, fbo, layers, outcome, cascades) ==
    IF map # 0 /\ fbo # 0
    THEN [map |-> map, fbo |-> fbo, layers |-> layers]
    ELSE AllocShadowMap(map, fbo, outcome, 1, cascades)

ensureSpotResources(map, fbo, layers, outcome) ==
    IF map # 0 /\ fbo # 0
    THEN [map |-> map, fbo |-> fbo, layers |-> layers]
    ELSE AllocShadowMap(map, fbo, outcome, 2, kMaxSpotShadows)

ensurePointResources(map, fbo, layers, outcome) ==
    IF map # 0 /\ fbo # 0
    THEN [map |-> map, fbo |-> fbo, layers |-> layers]
    ELSE AllocShadowMap(map, fbo, outcome, 3, kMaxPointShadows * 6)

\* The fields of a ShadowSystem that init reads and writes.
ShadowMembers ==
    [dirCascadeCount_ |-> dirCascadeCount_, dirUpdateEvery_ |-> dirUpdateEvery_,
     spotUpdateEvery_ |-> spotUpdateEvery_, pointUpdateEvery_ |-> pointUpdateEvery_,
     shadowDepthShader_ |-> shadowDepthShader_,
     dirShadowMap_ |-> dirShadowMap_, dirShadowFbo_ |-> dirShadowFbo_,
     spotShadowMap_ |-> spotShadowMap_, spotShadowFbo_ |-> spotShadowFbo_,
     pointShadowMap_ |-> pointShadowMap_, pointShadowFbo_ |-> pointShadowFbo_,
     shadowLayers |-> shadowLayers]

\* The three ensure*Resources calls at the end of a successful init.
EnsureAll(m, out, d, s, p) ==
    [m EXCEPT !.shadowDepthShader_ = 1,
              !.dirShadowMap_ = d.map, !.dirShadowFbo_ = d.fbo,
              !.spotShadowMap_ = s.map, !.spotShadowFbo_ = s.fbo,
              !.pointShadowMap_ = p.map, !.pointShadowFbo_ = p.fbo,
              !.shadowLayers = [dir |-> d.layers, spot |-> s.layers, point |-> p.layers]]

\* ShadowSystem::init on members m in a context behaving as out: the members it
\* leaves and its return value.
ShadowInit(m, out) ==
    LET c == [m EXCEPT !.dirCascadeCount_ = Clamp(m.dirCascadeCount_, 1, kMaxCascades),
                       !.dirUpdateEvery_ = Max(m.dirUpdateEvery_, 1),
                       !.spotUpdateEvery_ = Max(m.spotUpdateEvery_, 1),
                       !.pointUpdateEvery_ = Max(m.pointUpdateEvery_, 1)]
    IN  IF out.shader # "ok"
        THEN [ret |-> FALSE, m |-> [c EXCEPT !.shadowDepthShader_ = 0]]
        ELSE [ret |-> TRUE,
              m |-> EnsureAll(c, out,
                        ensureDirectionalResources(c.dirShadowMap_, c.dirShadowFbo_,
                            c.shadowLayers.dir, out.dir, c.dirCascadeCount_),
                        ensureSpotResources(c.spotShadowMap_, c.spotShadowFbo_,
                            c.shadowLayers.spot, out.spot),
                        ensurePointResources(c.pointShadowMap_, c.pointShadowFbo_,
                            c.shadowLayers.point, out.point))]

\* A render*Shadows body after its guards: bind, set state, clear and draw the first
\* n layers, restore.  A texture without storage takes no writes.
ShadowPass(n, frameIndex, res, layers, gl, shader) ==
    [drew |-> TRUE,
     layers |-> [i \in DOMAIN layers |-> IF i <= n THEN frameIndex ELSE layers[i]],
     gl |-> [framebuffer |-> 0, viewport |-> res, depthTest |-> TRUE,
             depthMask |-> TRUE, colorMask |-> TRUE, cullFace |-> TRUE,
             polygonOffsetFill |-> FALSE, polygonOffset |-> <<2, 4>>,
             program |-> shader]]

ShadowSkip(layers, gl) == [drew |-> FALSE, layers |-> layers, gl |-> gl]

renderDirectionalShadows(map, fbo, cascades, updateEvery, frameIndex, layers, gl, shader) ==
    IF map = 0 \/ fbo = 0 \/ cascades = 0
    THEN ShadowSkip(layers, gl)
    ELSE IF updateEvery > 1 /\ (frameIndex % updateEvery) # 0
         THEN ShadowSkip(layers, gl)
         ELSE ShadowPass(cascades, frameIndex, dirShadowResolution_, layers, gl, shader)

\* Mutant of renderSpotShadows: the interval test is dropped.
renderSpotShadows_EveryFrame(map, fbo, count, updateEvery, frameIndex, layers, gl, shader) ==
    IF map = 0 \/ fbo = 0 \/ count = 0
    THEN ShadowSkip(layers, gl)
    ELSE ShadowPass(count, frameIndex, spotShadowResolution_, layers, gl, shader)

renderSpotShadows(map, fbo, count, updateEvery, frameIndex, layers, gl, shader) ==
    IF map = 0 \/ fbo = 0 \/ count = 0
    THEN ShadowSkip(layers, gl)
    ELSE IF updateEvery > 1 /\ (frameIndex % updateEvery) # 0
         THEN ShadowSkip(layers, gl)
         ELSE ShadowPass(count, frameIndex, spotShadowResolution_, layers, gl, shader)

renderPointShadows(map, fbo, count, updateEvery, frameIndex, layers, gl, shader) ==
    IF map = 0 \/ fbo = 0 \/ count = 0
    THEN ShadowSkip(layers, gl)
    ELSE IF updateEvery > 1 /\ (frameIndex % updateEvery) # 0
         THEN ShadowSkip(layers, gl)
         ELSE ShadowPass(count * 6, frameIndex, pointShadowResolution_, layers, gl, shader)

(***************************************************************************)
(* SpecShadowMaps: init once, then frames of registrations and shadow      *)
(* passes in any order                                                     *)
(***************************************************************************)
\* Member initialisers of the three intervals: the source's 1, and one kind at a time
\* set to each value of 0..MaxUpdateEvery.
UpdateEveryDefaults ==
    {[dir |-> n, spot |-> 1, point |-> 1] : n \in 0..MaxUpdateEvery}
    \cup {[dir |-> 1, spot |-> n, point |-> 1] : n \in 0..MaxUpdateEvery}
    \cup {[dir |-> 1, spot |-> 1, point |-> n] : n \in 0..MaxUpdateEvery}

\* Contexts in which at most one of the shader build and the allocations fails.
ShadowGlOutcomes ==
    {o \in [shader : {"ok", "fail"}, dir : AllocOutcomes, spot : AllocOutcomes,
            point : AllocOutcomes] :
        Cardinality({f \in {"shader", "dir", "spot", "point"} : o[f] # "ok"}) <= 1}

InitShadowMaps ==
    /\ Constructed(ComputeContext, tileSize_, tileSize_)
    /\ TilesIdle
    /\ ShadowIdle
    /\ GlEnvIdle
    /\ MiscIdle
    /\ dirCascadeCount_ = 3
    /\ \E u \in UpdateEveryDefaults :
           /\ dirUpdateEvery_ = u.dir
           /\ spotUpdateEvery_ = u.spot
           /\ pointUpdateEvery_ = u.point
    /\ shadowDepthShader_ = 0
    /\ dirShadowMap_ = 0 /\ dirShadowFbo_ = 0
    /\ spotShadowMap_ = 0 /\ spotShadowFbo_ = 0
    /\ pointShadowMap_ = 0 /\ pointShadowFbo_ = 0
    /\ glOutcome \in ShadowGlOutcomes
    /\ glState = GlDefaultState
    /\ shadowLayers = [dir |-> <<>>, spot |-> <<>>, point |-> <<>>]
    /\ shadowInitRet = "none"
    /\ lastRender = NoRender

ShadowInitDone(r) ==
    /\ shadowInitRet' = IF r.ret THEN "true" ELSE "false"
    /\ dirCascadeCount_' = r.m.dirCascadeCount_
    /\ dirUpdateEvery_' = r.m.dirUpdateEvery_
    /\ spotUpdateEvery_' = r.m.spotUpdateEvery_
    /\ pointUpdateEvery_' = r.m.pointUpdateEvery_
    /\ shadowDepthShader_' = r.m.shadowDepthShader_
    /\ dirShadowMap_' = r.m.dirShadowMap_ /\ dirShadowFbo_' = r.m.dirShadowFbo_
    /\ spotShadowMap_' = r.m.spotShadowMap_ /\ spotShadowFbo_' = r.m.spotShadowFbo_
    /\ pointShadowMap_' = r.m.pointShadowMap_ /\ pointShadowFbo_' = r.m.pointShadowFbo_
    /\ shadowLayers' = r.m.shadowLayers

\* shadowSystem.init(shaderRoot)
CallShadowInit ==
    /\ shadowInitRet = "none"
    /\ ShadowInitDone(ShadowInit(ShadowMembers, glOutcome))
    /\ lastRender' = NoRender
    /\ UNCHANGED <<glOutcome, glState, shadowVars>>

ShadowConfig ==
    <<dirCascadeCount_, dirUpdateEvery_, spotUpdateEvery_, pointUpdateEvery_,
      shadowDepthShader_, dirShadowMap_, dirShadowFbo_, spotShadowMap_, spotShadowFbo_,
      pointShadowMap_, pointShadowFbo_, glOutcome, shadowInitRet>>

\* shadowSystem.beginFrame()
SchedBeginFrame ==
    /\ frameIndex_ < MaxSchedFrames
    /\ FrameBegun(beginFrame(spotShadowCount_, pointShadowCount_, frameIndex_))
    /\ prevSpotCalls' = Len(spotCalls)
    /\ spotCalls' = <<>> /\ pointCalls' = <<>>
    /\ lastCall' = "beginFrame" /\ lastRet' = 0
    /\ lastRender' = NoRender
    /\ UNCHANGED <<spotShadowViewProj_, spotShadowMatrices_, pointShadowViewProj_,
                   ShadowConfig, glState, shadowLayers>>

SchedSpotDesc == CHOOSE d \in SpotShadowDescs : d.radius > 2
SchedPointDesc == CHOOSE d \in PointShadowDescs : d.radius > 2

\* shadowSystem.registerSpotShadow(desc, invView), the first of a frame
SchedRegisterSpot ==
    /\ spotCalls = <<>>
    /\ SpotRegistered(registerSpotShadow(spotShadowCount_, spotShadowViewProj_,
                                         spotShadowMatrices_, SchedSpotDesc, "invView"))
    /\ spotCalls' = Append(spotCalls, [desc |-> SchedSpotDesc, invView |-> "invView"])
    /\ lastCall' = "registerSpotShadow"
    /\ lastRender' = NoRender
    /\ UNCHANGED <<pointShadowCount_, frameIndex_, pointShadowViewProj_, pointCalls,
                   prevSpotCalls, ShadowConfig, glState, shadowLayers>>

\* shadowSystem.registerPointShadow(desc), the first of a frame
SchedRegisterPoint ==
    /\ pointCalls = <<>>
    /\ PointRegistered(registerPointShadow(pointShadowCount_, pointShadowViewProj_,
                                           SchedPointDesc))
    /\ pointCalls' = Append(pointCalls, SchedPointDesc)
    /\ lastCall' = "registerPointShadow"
    /\ lastRender' = NoRender
    /\ UNCHANGED <<spotShadowCount_, frameIndex_, spotShadowViewProj_,
                   spotShadowMatrices_, spotCalls, prevSpotCalls, ShadowConfig, glState,
                   shadowLayers>>

ShadowsRendered(kind, r) ==
    /\ lastRender' = [kind |-> kind, drew |-> r.drew]
    /\ shadowLayers' = [shadowLayers EXCEPT ![kind] = r.layers]
    /\ glState' = r.gl
    /\ UNCHANGED <<ShadowConfig, shadowVars>>

\* shadowSystem.renderDirectionalShadows(meshes)
RenderDirectionalShadows ==
    ShadowsRendered("dir",
        renderDirectionalShadows(dirShadowMap_, dirShadowFbo_, dirCascadeCount_,
            dirUpdateEvery_, frameIndex_, shadowLayers.dir, glState, shadowDepthShader_))

\* shadowSystem.renderSpotShadows(meshes)
RenderSpotShadows ==
    ShadowsRendered("spot",
        renderSpotShadows(spotShadowMap_, spotShadowFbo_, spotShadowCount_,
            spotUpdateEvery_, frameIndex_, shadowLayers.spot, glState, shadowDepthShader_))

\* shadowSystem.renderPointShadows(meshes)
RenderPointShadows ==
    ShadowsRendered("point",
        renderPointShadows(pointShadowMap_, pointShadowFbo_, pointShadowCount_,
            pointUpdateEvery_, frameIndex_, shadowLayers.point, glState,
            shadowDepthShader_))

NextShadowMaps ==
    \/ (CallShadowInit /\ UNCHANGED <<engineVars, loopVars, tileVars, sceneVars, glEnvVars, destructLog, miscVars>>)
    \/ (SchedBeginFrame /\ UNCHANGED <<engineVars, loopVars, tileVars, sceneVars, glEnvVars, destructLog, miscVars>>)
    \/ (SchedRegisterSpot /\ UNCHANGED <<engineVars, loopVars, tileVars, sceneVars, glEnvVars, destructLog, miscVars>>)
    \/ (SchedRegisterPoint /\ UNCHANGED <<engineVars, loopVars, tileVars, sceneVars, glEnvVars, destructLog, miscVars>>)
    \/ (RenderDirectionalShadows /\ UNCHANGED <<engineVars, loopVars, tileVars, sceneVars, glEnvVars, destructLog, miscVars>>)
    \/ (RenderSpotShadows /\ UNCHANGED <<engineVars, loopVars, tileVars, sceneVars, glEnvVars, destructLog, miscVars>>)
    \/ (RenderPointShadows /\ UNCHANGED <<engineVars, loopVars, tileVars, sceneVars, glEnvVars, destructLog, miscVars>>)

SpecShadowMaps == InitShadowMaps /\ [][NextShadowMaps]_vars

(***************************************************************************)
(* C11: the shadow render schedule                                         *)
(***************************************************************************)
ShadowKinds == {"dir", "spot", "point"}

\* The interval, the number of items to draw and the handles of each kind.
UpdateEveryOf(kind) ==
    IF kind = "dir" THEN dirUpdateEvery_
    ELSE IF kind = "spot" THEN spotUpdateEvery_ ELSE pointUpdateEvery_

ShadowCountOf(kind) ==
    IF kind = "dir" THEN dirCascadeCount_
    ELSE IF kind = "spot" THEN spotShadowCount_ ELSE pointShadowCount_

HasShadowMap(kind) ==
    IF kind = "dir" THEN dirShadowMap_ # 0 /\ dirShadowFbo_ # 0
    ELSE IF kind = "spot" THEN spotShadowMap_ # 0 /\ spotShadowFbo_ # 0
    ELSE pointShadowMap_ # 0 /\ pointShadowFbo_ # 0

\* The step is a beginFrame call.
IsBeginFrameStep ==
    /\ lastCall' = "beginFrame"
    /\ lastRender' = NoRender
    /\ shadowInitRet' = shadowInitRet
    /\ spotCalls' = <<>> /\ pointCalls' = <<>>
    /\ shadowVars' # shadowVars

\* The frame counter moves by exactly one, and only in beginFrame.
FrameCounterSteps ==
    frameIndex_' = IF IsBeginFrameStep THEN frameIndex_ + 1 ELSE frameIndex_

\* A skipped pass leaves the shadow maps and the GL state alone.
SkipIsSilent ==
    (lastRender'.kind \in ShadowKinds /\ ~lastRender'.drew)
        => UNCHANGED <<shadowLayers, glState>>

\* The claim as stated, for a ShadowSystem whose init returned true: a pass draws
\* exactly in the frames that are multiples of N.
DrawsIffMultiple ==
    \A kind \in ShadowKinds :
        (lastRender'.kind = kind /\ UpdateEveryOf(kind) >= 1 /\ shadowInitRet = "true")
            => (lastRender'.drew <=> frameIndex_ % UpdateEveryOf(kind) = 0)

\* What the code does: it draws in those frames only when the shadow map and its
\* framebuffer exist and there is at least one cascade / registered shadow.
DrawsIffMultipleAndPresent ==
    \A kind \in ShadowKinds :
        (lastRender'.kind = kind /\ UpdateEveryOf(kind) >= 1)
            => (lastRender'.drew <=>
                    /\ HasShadowMap(kind)
                    /\ ShadowCountOf(kind) # 0
                    /\ frameIndex_ % UpdateEveryOf(kind) = 0)

\* C11 as stated: the frame counter increases by exactly 1 per beginFrame, a render
\* function with interval N >= 1 draws in exactly the frames whose counter is a
\* multiple of N, and a skipped call changes neither the shadow map nor GL state.
C11_DrawsEveryNthFrame ==
    [][FrameCounterSteps /\ DrawsIffMultiple /\ SkipIsSilent]_vars

\* C11 (amended): the frame counter increases by exactly 1 per beginFrame; a render
\* function with interval N >= 1 draws exactly when the frame counter is a multiple
\* of N and its shadow map and framebuffer exist and its cascade / registered shadow
\* count is not 0; a call that does not draw changes neither the shadow maps nor the
\* GL state.
C11_RenderSchedule ==
    [][FrameCounterSteps /\ DrawsIffMultipleAndPresent /\ SkipIsSilent]_vars

\* With interval 2 the spot pass drew in frame 2 and is skipped in frame 3, where a
\* spot shadow is registered and the layer still holds the drawing of frame 2.
C11_Witness ==
    /\ spotUpdateEvery_ = 2
    /\ frameIndex_ = 3
    /\ spotShadowCount_ = 1
    /\ lastRender = [kind |-> "spot", drew |-> FALSE]
    /\ Len(shadowLayers.spot) = kMaxSpotShadows
    /\ shadowLayers.spot[1] = 2
    /\ glState.viewport = spotShadowResolution_

(***************************************************************************)
(* C12: what ShadowSystem::init reports                                    *)
(***************************************************************************)
\* The shadow map of a kind can be rendered into: names and layer storage exist.
ShadowMapUsable(kind) == HasShadowMap(kind) /\ Len(shadowLayers[kind]) > 0

\* C12: init returns false whenever the shadow depth shader build fails or the
\* allocation of any of the three shadow maps / framebuffers fails, and returns true
\* only when the shader and all three resource sets are usable.
C12_InitReportsFailure ==
    /\ (shadowInitRet # "none" /\ glOutcome # GlAllOk) => shadowInitRet = "false"
    /\ shadowInitRet = "true" =>
           /\ shadowDepthShader_ # 0
           /\ \A kind \in ShadowKinds : ShadowMapUsable(kind)

(***************************************************************************)
(* C13: a failed shader build or mesh upload                               *)
(***************************************************************************)
\* Everything buildScene builds and uploads for a tier when nothing fails.
AllShaders(path) == {TierShaders(path)[i] : i \in 1..Len(TierShaders(path))}
AllMeshes(path) ==
    {VolumeMeshes(path)[i] : i \in 1..Len(VolumeMeshes(path))}
    \cup {SceneMeshes[i] : i \in 1..Len(SceneMeshes)}

\* buildScene ran and a shader build or a mesh upload failed in it.
BuildFailed ==
    /\ window_ /\ glContext_
    /\ \/ builtShaders # AllShaders(rendererPath_)
       \/ validMeshes # AllMeshes(rendererPath_)

\* C13: if a shader build or a mesh upload fails during buildScene, sceneReady_ is
\* false afterwards and stays false, the init() that ran buildScene returns false,
\* no renderScene issues a GL stage, and a run loop that is entered still handles
\* events.
C13_FailedBuildNeverRenders ==
    /\ [](BuildFailed => (~sceneReady_ /\ opsSinceSwap = <<>>))
    /\ [](BuildFailed /\ pc = "poll" /\ eventsHandled < MaxEvents => ENABLED PollEvent)
    /\ [][BuildFailed => (BuildFailed' /\ ~sceneReady_')]_vars
    /\ [][(~window_ /\ BuildFailed') => lastInitRet' = "false"]_vars
    /\ [][(BuildFailed /\ pc = "render") => (pc' = "swap" /\ opsSinceSwap' = <<>>)]_vars

\* After a failed mesh upload the loop was entered, handled an event that changed the
\* debug view, and completed a frame that consists of the swap alone.
C13_Witness ==
    /\ BuildFailed
    /\ builtShaders = AllShaders(rendererPath_)
    /\ rendererPath_ = "Deferred41"
    /\ validMeshes = {"lightSphere_"}
    /\ eventsHandled > 0 /\ debugView_ = 3
    /\ lastFrameOps = <<"swap">>
    /\ pc = "poll"

(***************************************************************************)
(* SpecFramebuffers: the engine life cycle on contexts that report some    *)
(* framebuffer incomplete                                                  *)
(***************************************************************************)
DeferredContext ==
    [major |-> 4, minor |-> 1, hasDispatchCompute |-> FALSE, hasMemoryBarrier |-> FALSE]

\* The framebuffers ensureLightingResources / ensureDeferredResources create.
EngineFramebuffers(path) ==
    IF path = "TiledCompute" THEN {"depthFbo_"}
    ELSE IF path = "Deferred41" THEN {"gbufferFbo_", "lightFbo_"}
    ELSE {}

\* The completeness check that follows each framebuffer's creation: an error line when
\* glCheckFramebufferStatus is not GL_FRAMEBUFFER_COMPLETE, and nothing else; the
\* handle, the recorded size and sceneReady_ are what they are for a complete one.
framebufferStatusLog(fbo, incomplete) ==
    IF fbo \in incomplete
    THEN <<"error: RenderEngine: " \o fbo \o " framebuffer is incomplete">>
    ELSE <<>>

FboHandle(fbo) == IF fbo = "depthFbo_" THEN tiled.depthFbo_ ELSE deferred[fbo]

\* The framebuffer a stage of a frame renders into (0: the window).
StageTarget(op) ==
    IF op = "depthPrepass" THEN "depthFbo_"
    ELSE IF op = "gbufferPass" THEN "gbufferFbo_"
    ELSE IF op \in {"dirLightPass", "volumePass"} THEN "lightFbo_"
    ELSE "0"

InitFramebuffers ==
    /\ \E c \in {ComputeContext, DeferredContext} : Constructed(c, tileSize_, tileSize_)
    /\ TilesIdle
    /\ ShadowIdle
    /\ ShadowGlIdle
    /\ fboIncomplete \in {{}, {"gbufferFbo_"}, {"lightFbo_"}, {"depthFbo_"}}
    /\ destructLog = <<>>
    /\ MiscIdle

SpecFramebuffers == InitFramebuffers /\ [][Next]_vars

\* C14: an incomplete framebuffer is fatal to scene construction: if the G-buffer,
\* the light-accumulation or the depth framebuffer fails its completeness check, the
\* engine is not ready and no frame renders into that framebuffer.
C14_IncompleteFramebufferFatal ==
    \A fbo \in EngineFramebuffers(rendererPath_) :
        (FboHandle(fbo) # 0 /\ framebufferStatusLog(fbo, fboIncomplete) # <<>>)
            => /\ ~sceneReady_
               /\ \A i \in 1..Len(opsSinceSwap) : StageTarget(opsSinceSwap[i]) # fbo

(***************************************************************************)
(* C15: render targets follow the window size                              *)
(***************************************************************************)
\* The size the active tier's size-dependent targets were last allocated for.
RecordedSize ==
    IF rendererPath_ = "TiledCompute" THEN <<tiled.resourceWidth_, tiled.resourceHeight_>>
    ELSE <<deferred.deferredWidth_, deferred.deferredHeight_>>

\* renderScene is about to render a frame, or has just issued one.
FrameRenders ==
    /\ sceneReady_
    /\ rendererPath_ \in {"TiledCompute", "Deferred41"}
    /\ \/ pc = "render"
       \/ pc = "swap" /\ opsSinceSwap # <<>>

\* C15 as stated: whenever a frame renders, the recorded allocation size of the
\* active tier's targets equals (width_, height_).
C15_TargetsMatchWindow ==
    FrameRenders => RecordedSize = <<width_, height_>>

\* C15 (amended): whenever a frame renders and width_ and height_ are positive, the
\* recorded allocation size equals (width_, height_); while one of them is not
\* positive the targets keep the last positive size they were allocated for.
C15_TargetsMatchPositiveWindow ==
    FrameRenders =>
        /\ (width_ > 0 /\ height_ > 0) => RecordedSize = <<width_, height_>>
        /\ RecordedSize[1] > 0 /\ RecordedSize[2] > 0

\* A frame of the deferred tier is issued after the window, created tileSize_ wide,
\* was resized to tileSize_ + 1.
C15_Witness ==
    /\ rendererPath_ = "Deferred41"
    /\ pc = "swap"
    /\ \E i \in 1..Len(opsSinceSwap) : opsSinceSwap[i] = "gbufferPass"
    /\ width_ = tileSize_ + 1
    /\ deferred.deferredWidth_ = tileSize_ + 1
    /\ eventsHandled > 0

(***************************************************************************)
(* SpecLifetime: the engine life cycle ending in ~RenderEngine             *)
(***************************************************************************)
\* One glDelete* call per non-zero handle, in the order the code tests them.
RECURSIVE DeleteOps(_, _, _)
DeleteOps(handles, order, i) ==
    IF i > Len(order) THEN <<>>
    ELSE (IF handles[order[i]] # 0 THEN <<"glDelete:" \o order[i]>> ELSE <<>>)
         \o DeleteOps(handles, order, i + 1)

\* destroyLightingResources(): nothing without a context.
destroyLightingOps(ctx, t) ==
    IF ~ctx THEN <<>>
    ELSE DeleteOps(t, <<"depthFbo_", "depthTexture_", "lightsSsbo_", "tileMetaSsbo_",
                        "tileIndexSsbo_", "tileDepthSsbo_">>, 1)

\* destroyDeferredResources(): nothing without a context.
destroyDeferredOps(ctx, d) ==
    IF ~ctx THEN <<>>
    ELSE DeleteOps(d, <<"gbufferFbo_", "lightFbo_", "gbufferAlbedo_", "gbufferNormal_",
                        "gbufferDepthColor_", "gbufferDepth_", "lightColor_",
                        "lightsTboTex_", "lightsTbo_", "fullscreenVao_">>, 1)

\* The members with a destructor that deletes GL objects, in declaration order.
ShaderMembers ==
    <<"lightingShader_", "depthShader_", "depthMinMaxCompute_", "lightCullCompute_",
      "simpleShader_", "deferredGeometryShader_", "deferredDirLightShader_",
      "deferredVolumeShader_", "deferredCompositeShader_">>
MeshMembers == <<"ground_", "wallA_", "wallB_", "lightSphere_", "lightCone_">>

\* ShaderProgram::~ShaderProgram -> destroy(): glDeleteProgram when id() != 0.
\* MeshBuffer::~MeshBuffer -> destroy(): glDeleteBuffers / glDeleteVertexArrays for
\* the non-zero handles.  Members are destroyed in reverse declaration order, after
\* the body of ~RenderEngine.
RECURSIVE MemberDestructorOps(_, _, _)
MemberDestructorOps(built, meshes, i) ==
    IF i = 0 THEN <<>>
    ELSE (IF i > Len(ShaderMembers)
          THEN IF MeshMembers[i - Len(ShaderMembers)] \in meshes
               THEN <<"glDelete:" \o MeshMembers[i - Len(ShaderMembers)] \o ".ebo_",
                      "glDelete:" \o MeshMembers[i - Len(ShaderMembers)] \o ".vbo_",
                      "glDelete:" \o MeshMembers[i - Len(ShaderMembers)] \o ".vao_">>
               ELSE <<>>
          ELSE IF ShaderMembers[i] \in built
               THEN <<"glDelete:" \o ShaderMembers[i] \o ".programId_">>
               ELSE <<>>)
         \o MemberDestructorOps(built, meshes, i - 1)

\* ~RenderEngine(): the destructor body, then the member destructors.
DestructorOps(ctx, win, t, d, built, meshes) ==
    destroyLightingOps(ctx, t)
    \o destroyDeferredOps(ctx, d)
    \o (IF ctx THEN <<"SDL_GL_DeleteContext">> ELSE <<>>)
    \o (IF win THEN <<"SDL_DestroyWindow">> ELSE <<>>)
    \o MemberDestructorOps(built, meshes, Len(ShaderMembers) + Len(MeshMembers))

\* The engine object goes out of scope: after run() returned or without a run.
Destruct ==
    /\ pc = "idle"
    /\ destructLog' = DestructorOps(glContext_, window_, tiled, deferred, builtShaders,
                                    validMeshes)
    /\ pc' = "destroyed"
    /\ glContext_' = FALSE /\ window_' = FALSE
    /\ tiled' = IF glContext_ THEN NoTiled ELSE tiled
    /\ deferred' = destroyDeferredResources(glContext_, deferred)
    /\ builtShaders' = {} /\ validMeshes' = {}
    /\ UNCHANGED <<glCaps, width_, height_, zoom_, middleDragging_, debugView_,
                   dispatchCompute_, memoryBarrier_, rendererPath_, sceneReady_,
                   lightsSize, lightCounts, running, detectLog, detectCalls,
                   opsSinceSwap, lastFrameOps, eventsHandled, lastInitRet>>

InitLifetime ==
    /\ \E c \in ContextProfiles : Constructed(c, tileSize_, tileSize_)
    /\ TilesIdle
    /\ ShadowIdle
    /\ ExtIdle

NextLifetime ==
    \/ Next
    \/ (Destruct /\ UNCHANGED <<tileVars, shadowVars, shadowGlVars, glEnvVars, miscVars>>)

SpecLifetime == InitLifetime /\ [][NextLifetime]_vars

(***************************************************************************)
(* C16: GL deletions and the context lifetime                              *)
(***************************************************************************)
\* Position of the context deletion in the destructor's calls, 0 if it has none.
ContextDeletedAt ==
    IF \E i \in 1..Len(destructLog) : destructLog[i] = "SDL_GL_DeleteContext"
    THEN CHOOSE i \in 1..Len(destructLog) : destructLog[i] = "SDL_GL_DeleteContext"
    ELSE 0

IsGlDelete(op) == Len(op) > 9 /\ SubSeq(op, 1, 9) = "glDelete:"

\* C16: no glDelete* call is issued after the GL context has been deleted or before
\* one exists, in every run including failed init and destruction.
C16_DeletesInsideContext ==
    \A i \in 1..Len(destructLog) :
        IsGlDelete(destructLog[i]) => (ContextDeletedAt # 0 /\ i < ContextDeletedAt)

(***************************************************************************)
(* RenderEngine::updateLights and the volume pass of renderDeferredScene:  *)
(* which lights contain the camera, and the face the light volumes cull.   *)
(* View-space positions and radii are integers; glm::length(v) < r is      *)
(* decided exactly by comparing the squares.                               *)
(***************************************************************************)
MaxVolumeLights == 2    \* SpecVolume: lights in the scene, 0..MaxVolumeLights

Dot3(v) == v[1] * v[1] + v[2] * v[2] + v[3] * v[3]

\* glm::length(viewPos) == light.radius
OnLightBoundary(light) == light.radius >= 0 /\ Dot3(light.viewPos) = light.radius * light.radius

\* if (glm::length(viewPos) <= light.radius): the test with the boundary included.
ContainsCamera_Inclusive(light) ==
    light.radius >= 0 /\ Dot3(light.viewPos) <= light.radius * light.radius

\* if (glm::length(viewPos) < light.radius)
ContainsCamera(light) ==
    light.radius > 0 /\ Dot3(light.viewPos) < light.radius * light.radius

\* updateLights: the value of cameraInsideLightVolume_ when it returns.  With no
\* light it returns before the flag is reset; on another path it returns at once.
updateLightsInside(path, lights, inside) ==
    IF path # "Deferred41" THEN inside
    ELSE IF lights = <<>> THEN inside
    ELSE \E i \in 1..Len(lights) : ContainsCamera(lights[i])

\* The volume pass: glCullFace(cameraInsideLightVolume_ ? GL_FRONT : GL_BACK),
\* issued only when lightCount_ > 0.
volumePassCullFace(lightCount, inside, cull) ==
    IF lightCount > 0
    THEN (IF inside THEN "GL_FRONT" ELSE "GL_BACK")
    ELSE cull

\* Positions of a light relative to the camera, and radii: inside, exactly on
\* the boundary (3-4-5 and 6-8-10 triples, axis points) and outside.
ViewPositions == {<<0, 0, 0>>, <<3, 4, 0>>, <<0, 0 - 3, 4>>, <<0, 0, 0 - 6>>, <<6, 0, 8>>}
LightRadii == {5, 6, 10}
VolumeLightChoices == [viewPos : ViewPositions, radius : LightRadii]

RECURSIVE LightLists(_)
LightLists(n) ==
    IF n = 0 THEN {<<>>}
    ELSE LightLists(n - 1)
         \cup {Append(ls, l) : ls \in {x \in LightLists(n - 1) : Len(x) = n - 1},
                               l \in VolumeLightChoices}

InitVolume ==
    /\ Constructed(DeferredContext, tileSize_, tileSize_)
    /\ TilesIdle
    /\ ShadowIdle
    /\ ExtIdle

\* One frame of renderDeferredScene on the Deferred41 path: the lights have
\* moved, updateLights transforms them, the volume pass picks its cull face.
VolumeFrame ==
    /\ \E ls \in LightLists(MaxVolumeLights) :
           /\ viewLights' = ls
           /\ cameraInsideLightVolume_' =
                  updateLightsInside("Deferred41", ls, cameraInsideLightVolume_)
           /\ volumeCullFace' =
                  volumePassCullFace(Len(ls),
                      updateLightsInside("Deferred41", ls, cameraInsideLightVolume_),
                      volumeCullFace)
    /\ UNCHANGED <<engineVars, loopVars, tileVars, shadowVars, sceneVars, shadowGlVars,
                   glEnvVars, destructLog, compositeVars, meshVars, programVars,
                   lateVars>>

NextVolume == VolumeFrame

SpecVolume == InitVolume /\ [][NextVolume]_vars

\* C17 as stated: a light at a distance exactly equal to its radius counts as
\* containing the camera, so after a frame with such a light the flag
\* cameraInsideLightVolume_ is set and the volume pass has culled front faces.
C17_BoundaryInclusive ==
    (\E i \in 1..Len(viewLights) : OnLightBoundary(viewLights[i]))
        => (cameraInsideLightVolume_ /\ volumeCullFace = "GL_FRONT")

\* C17 amended: after a frame with at least one light, cameraInsideLightVolume_
\* is set exactly when some light is at a distance strictly less than its
\* radius, and the volume pass culled front faces exactly when the flag is set
\* (back faces otherwise); lights exactly on the boundary do not set it.
C17_BoundaryExclusive ==
    viewLights # <<>> =>
        /\ cameraInsideLightVolume_ =
               (\E i \in 1..Len(viewLights) :
                    Dot3(viewLights[i].viewPos) < viewLights[i].radius * viewLights[i].radius)
        /\ volumeCullFace = (IF cameraInsideLightVolume_ THEN "GL_FRONT" ELSE "GL_BACK")

\* A frame whose lights are all exactly on the boundary: flag clear, back faces culled.
C17_Witness ==
    /\ viewLights # <<>>
    /\ \A i \in 1..Len(viewLights) : OnLightBoundary(viewLights[i])
    /\ ~cameraInsideLightVolume_
    /\ volumeCullFace = "GL_BACK"

(***************************************************************************)
(* shaders/deferred_composite.frag: main().  Colour channels are in        *)
(* thousandths (1000 = 1.0).  The final pow(clamp(color, 0, 1), 1 / 2.2)   *)
(* is kept as the clamped colour tagged with the encoding: x^(1/2.2) is    *)
(* strictly increasing on [0, 1], so two outputs are equal exactly when    *)
(* their clamped colours are.  What the shadow lookups of the modes 7 and  *)
(* 8 compute from the matrices (the cascade of the fragment, the filtered  *)
(* shadow factor) is an input of the fragment.                             *)
(***************************************************************************)
MinSelector == 0 - 2    \* SpecComposite: uDebugMode ranges over MinSelector..MaxSelector
MaxSelector == 10

One == 1000

Vec3(x) == <<x, x, x>>

\* vec3 tonemap(vec3 color) { return color / (color + vec3(1.0)); }
tonemap(color) == [i \in 1..3 |-> (color[i] * One) \div (color[i] + One)]

\* clamp(color, 0.0, 1.0)
clamp01(color) == [i \in 1..3 |-> Max(0, Min(color[i], One))]

\* normalize() of a vector along one axis
normalizeAxis(v) ==
    [i \in 1..3 |-> IF v[i] > 0 THEN One ELSE IF v[i] < 0 THEN 0 - One ELSE 0]

\* pow(clamp(color, 0.0, 1.0), vec3(1.0 / 2.2))
gammaEncode(color) == [fn |-> "pow(1/2.2)", rgb |-> clamp01(color)]

\* the cascade colours of mode 8
cascadeColor(cascade) ==
    IF cascade = 0 THEN <<850, 150, 150>>
    ELSE IF cascade = 1 THEN <<150, 850, 150>>
    ELSE IF cascade = 2 THEN <<150, 250, 850>>
    ELSE <<850, 850, 150>>

\* The colour main() selects before the encoding, with the last branch given.
compositeColor(mode, t, fallback) ==
    IF mode = 0 THEN tonemap(t.light)
    ELSE IF mode = 1 THEN t.albedo
    ELSE IF mode = 2 THEN [i \in 1..3 |-> normalizeAxis(t.normal)[i] \div 2 + One \div 2]
    ELSE IF mode = 3 THEN <<t.rough, t.metal, 0>>
    ELSE IF mode = 4 THEN Vec3(t.depth)
    ELSE IF mode = 6 THEN Vec3(t.shadowMapDepth)
    ELSE IF mode = 7 \/ mode = 8
         THEN (IF t.depth >= 1000 THEN Vec3(0)
               ELSE IF mode = 8 THEN cascadeColor(t.cascade)
               ELSE Vec3(t.shadow))
    ELSE fallback

\* main() with a last branch that shows the tonemapped buffer of mode 0.
main_FallbackFinal(mode, t) == gammaEncode(compositeColor(mode, t, tonemap(t.light)))

\* void main(): the last branch is color = texture(uLightBuffer, vUv).rgb
main(mode, t) == gammaEncode(compositeColor(mode, t, t.light))

\* enum class DebugView : Final = 0 ... ShadowCascade = 8
DebugViewFinal == 0
DebugViewLight == 5
DebugViewLast == 8
DefinedSelectors == DebugViewFinal..DebugViewLast

\* What the textures hold under one fragment: a black, a mid and an over-bright
\* light buffer texel; a near fragment and the far plane; two surface normals.
TexelChoices ==
    { [light |-> l, albedo |-> <<800, 400, 200>>, metal |-> 250,
       normal |-> n, rough |-> 600, depth |-> d,
       shadowMapDepth |-> 700, cascade |-> c, shadow |-> 500] :
        l \in {<<0, 0, 0>>, <<500, 250, 0>>, <<3000, 1000, 200>>},
        n \in {<<0, 2, 0>>, <<0, 0, 0 - 1>>},
        d \in {400, 1000},
        c \in {0, 2} }

InitComposite ==
    /\ Constructed(DeferredContext, tileSize_, tileSize_)
    /\ TilesIdle
    /\ ShadowIdle
    /\ ExtIdle

\* The composite pass shades one fragment with the selector it was given.
CompositeFragment ==
    /\ \E mode \in MinSelector..MaxSelector, t \in TexelChoices :
           /\ uDebugMode' = mode
           /\ texel' = t
           /\ FragColor' = main(mode, t)
    /\ UNCHANGED <<engineVars, loopVars, tileVars, shadowVars, sceneVars, shadowGlVars,
                   glEnvVars, destructLog, volumeVars, meshVars, programVars,
                   lateVars>>

NextComposite == CompositeFragment

SpecComposite == InitComposite /\ [][NextComposite]_vars

Shaded == FragColor # NoColor

\* C18 as stated: for every integer selector outside the defined range the
\* composite pass outputs what the final view (selector 0, the tonemapped HDR
\* buffer) outputs for the same fragment.
C18_OutOfRangeIsFinal ==
    (Shaded /\ uDebugMode \notin DefinedSelectors)
        => FragColor = main(DebugViewFinal, texel)

\* C18 amended: for every integer selector outside the defined range the
\* composite pass outputs the light buffer without tonemapping (clamped and
\* gamma encoded), which is the output of the light view (selector 5); it
\* coincides with the final view only where the light buffer is black.
C18_OutOfRangeIsLight ==
    (Shaded /\ uDebugMode \notin DefinedSelectors) =>
        /\ FragColor = [fn |-> "pow(1/2.2)", rgb |-> clamp01(texel.light)]
        /\ FragColor = main(DebugViewLight, texel)
        /\ (FragColor = main(DebugViewFinal, texel)) = (texel.light = <<0, 0, 0>>)

\* A selector above the range and one below it on a lit fragment: the output is
\* the clamped light buffer and differs from the final view.
C18_Witness ==
    /\ Shaded
    /\ uDebugMode \in {DebugViewLast + 1, 0 - 1}
    /\ texel.light = <<3000, 1000, 200>>
    /\ FragColor.rgb = <<1000, 1000, 200>>
    /\ FragColor # main(DebugViewFinal, texel)

(***************************************************************************)
(* One MeshBuffer under arbitrary sequences of upload and draw calls.      *)
(***************************************************************************)
MaxMeshUploads == 4     \* SpecMesh: upload calls on the buffer
MaxMeshData == 2        \* SpecMesh: the vertex and the index list hold 0..MaxMeshData items

InitMesh ==
    /\ Constructed(ComputeContext, tileSize_, tileSize_)
    /\ TilesIdle
    /\ ShadowIdle
    /\ ExtIdle

MeshUploaded(nVertices, nIndices, r) ==
    /\ meshBuf' = r.mb
    /\ meshNames' = IF r.ret THEN meshNames + 1 ELSE meshNames
    /\ meshCall' = [op |-> "upload", uploads |-> meshCall.uploads + 1,
                    nVertices |-> nVertices, nIndices |-> nIndices, ret |-> r.ret,
                    uploadOps |-> r.ops, drawOps |-> <<>>]

\* mesh.upload(vertices, indices) on a current context; glGen* hands out fresh names.
MeshUpload ==
    /\ meshCall.uploads < MaxMeshUploads
    /\ \E nVertices \in 0..MaxMeshData, nIndices \in 0..MaxMeshData :
           MeshUploaded(nVertices, nIndices,
                        upload(meshBuf, nVertices, nIndices, meshNames + 1))
    /\ UNCHANGED <<engineVars, loopVars, tileVars, shadowVars, sceneVars, shadowGlVars,
                   glEnvVars, destructLog, volumeVars, compositeVars, programVars,
                   lateVars>>

\* mesh.draw()
MeshDraw ==
    /\ meshCall' = [meshCall EXCEPT !.op = "draw", !.drawOps = draw(meshBuf)]
    /\ UNCHANGED <<meshBuf, meshNames>>
    /\ UNCHANGED <<engineVars, loopVars, tileVars, shadowVars, sceneVars, shadowGlVars,
                   glEnvVars, destructLog, volumeVars, compositeVars, programVars,
                   lateVars>>

NextMesh == MeshUpload \/ MeshDraw

SpecMesh == InitMesh /\ [][NextMesh]_vars

HoldsNoGlObjects(mb) ==
    mb.vao_ = 0 /\ mb.vbo_ = 0 /\ mb.ebo_ = 0 /\ mb.indexCount_ = 0

InSeq(x, seq) == \E i \in 1..Len(seq) : seq[i] = x

MaxBuilds == 3          \* SpecProgram: build calls on the program

Gl(call, name) == [call |-> call, name |-> name]

\* destroy(): glDeleteProgram when programId_ != 0; it leaves programId_ 0.
destroyProgramOps(id) == IF id # 0 THEN <<Gl("glDeleteProgram", id)>> ELSE <<>>

\* compile(type, source): the shader name it returns (0 on failure) and its calls.
compile(outcome, name) ==
    IF outcome = "noShader"
    THEN [shader |-> 0, ops |-> <<Gl("glCreateShader", 0), Gl("spdlog::error", 0)>>]
    ELSE IF outcome = "error"
    THEN [shader |-> 0,
          ops |-> <<Gl("glCreateShader", name), Gl("glCompileShader", name),
                    Gl("spdlog::error", 0), Gl("glDeleteShader", name)>>]
    ELSE [shader |-> name,
          ops |-> <<Gl("glCreateShader", name), Gl("glCompileShader", name)>>]

deleteShaderOps(shader) == IF shader # 0 THEN <<Gl("glDeleteShader", shader)>> ELSE <<>>

\* The link of the program p from the compiled shaders; glGetProgramiv on the
\* name 0 leaves linked at 0.
linkProgram(pre, shaders, o, fresh) ==
    LET p == IF o.create THEN fresh ELSE 0
        linkOps == pre \o <<Gl("glCreateProgram", p), Gl("glLinkProgram", p)>>
                       \o [i \in 1..Len(shaders) |-> Gl("glDeleteShader", shaders[i])]
    IN  IF ~(o.create /\ o.link)
        THEN [ret |-> FALSE, id |-> 0,
              ops |-> linkOps \o <<Gl("spdlog::error", 0)>> \o destroyProgramOps(p)]
        ELSE [ret |-> TRUE, id |-> p, ops |-> linkOps]

buildFromSource(id, o, fresh) ==
    LET vs == compile(o.compile1, 1)
        fs == compile(o.compile2, 2)
        pre == destroyProgramOps(id) \o vs.ops \o fs.ops
    IN  IF vs.shader = 0 \/ fs.shader = 0
        THEN [ret |-> FALSE, id |-> 0,
              ops |-> pre \o deleteShaderOps(vs.shader) \o deleteShaderOps(fs.shader)]
        ELSE linkProgram(pre, <<vs.shader, fs.shader>>, o, fresh)

\* Mutant of buildFromFiles: an unreadable file returns false without destroy().
buildFromFiles_KeepsOnUnreadable(id, o, fresh) ==
    IF ~o.read1 \/ ~o.read2
    THEN [ret |-> FALSE, id |-> id, ops |-> <<Gl("spdlog::error", 0)>>]
    ELSE LET r == buildFromSource(id, o, fresh)
         IN  IF ~r.ret THEN [r EXCEPT !.ops = Append(@, Gl("spdlog::error", 0))] ELSE r

buildFromFiles(id, o, fresh) ==
    IF ~o.read1 \/ ~o.read2
    THEN [ret |-> FALSE, id |-> 0,
          ops |-> <<Gl("spdlog::error", 0)>> \o destroyProgramOps(id)]
    ELSE LET r == buildFromSource(id, o, fresh)
         IN  IF ~r.ret THEN [r EXCEPT !.ops = Append(@, Gl("spdlog::error", 0))] ELSE r

buildComputeFromSource(id, o, fresh) ==
    LET cs == compile(o.compile1, 1)
        pre == destroyProgramOps(id) \o cs.ops
    IN  IF cs.shader = 0
        THEN [ret |-> FALSE, id |-> 0, ops |-> pre]
        ELSE linkProgram(pre, <<cs.shader>>, o, fresh)

buildComputeFromFile(id, o, fresh) ==
    IF ~o.read1
    THEN [ret |-> FALSE, id |-> 0,
          ops |-> <<Gl("spdlog::error", 0)>> \o destroyProgramOps(id)]
    ELSE LET r == buildComputeFromSource(id, o, fresh)
         IN  IF ~r.ret THEN [r EXCEPT !.ops = Append(@, Gl("spdlog::error", 0))] ELSE r

BuildFunctions ==
    {"buildFromSource", "buildFromFiles", "buildComputeFromSource", "buildComputeFromFile"}

Build(fn, id, o, fresh) ==
    IF fn = "buildFromSource" THEN buildFromSource(id, o, fresh)
    ELSE IF fn = "buildFromFiles" THEN buildFromFiles(id, o, fresh)
    ELSE IF fn = "buildComputeFromSource" THEN buildComputeFromSource(id, o, fresh)
    ELSE buildComputeFromFile(id, o, fresh)

\* A build that meets no failure, one failure, or a failure of both stages.
BuildOutcomes ==
    {BuildOk,
     [BuildOk EXCEPT !.read1 = FALSE], [BuildOk EXCEPT !.read2 = FALSE],
     [BuildOk EXCEPT !.compile1 = "noShader"], [BuildOk EXCEPT !.compile1 = "error"],
     [BuildOk EXCEPT !.compile2 = "noShader"], [BuildOk EXCEPT !.compile2 = "error"],
     [BuildOk EXCEPT !.compile1 = "error", !.compile2 = "error"],
     [BuildOk EXCEPT !.create = FALSE], [BuildOk EXCEPT !.link = FALSE]}

InitProgram ==
    /\ Constructed(ComputeContext, tileSize_, tileSize_)
    /\ TilesIdle
    /\ ShadowIdle
    /\ ExtIdle

ProgramBuilt(fn, o, r) ==
    /\ programId_' = r.id
    /\ progNames' = IF r.ret THEN progNames + 1 ELSE progNames
    /\ progCall' = [op |-> fn, builds |-> progCall.builds + 1, outcome |-> o,
                    prevId |-> programId_, ret |-> r.ret, ops |-> r.ops]

\* One call of a build function on the program.
ProgramBuild ==
    /\ progCall.builds < MaxBuilds
    /\ \E fn \in BuildFunctions, o \in BuildOutcomes :
           ProgramBuilt(fn, o, Build(fn, programId_, o, progNames + 1))
    /\ UNCHANGED <<engineVars, loopVars, tileVars, shadowVars, sceneVars, shadowGlVars,
                   glEnvVars, destructLog, volumeVars, compositeVars, meshVars,
                   lateVars>>

NextProgram == ProgramBuild

SpecProgram == InitProgram /\ [][NextProgram]_vars

FromFile(fn) == fn \in {"buildFromFiles", "buildComputeFromFile"}
TwoStages(fn) == fn \in {"buildFromSource", "buildFromFiles"}

\* The failures the call of fn meets under the outcome o.
Unreadable(fn, o) == FromFile(fn) /\ (~o.read1 \/ (TwoStages(fn) /\ ~o.read2))
CompileFails(fn, o) == o.compile1 # "ok" \/ (TwoStages(fn) /\ o.compile2 # "ok")
LinkFails(o) == ~o.create \/ ~o.link

\* C20: after any sequence of build calls id() is non-zero iff the last call
\* returned true; a call that met an unreadable file, a compile error of either
\* stage or a link error returned false with id() == 0; and the program the
\* object held before the call was released with glDeleteProgram.
C20_BuildContract ==
    progCall.builds > 0 =>
        /\ (programId_ # 0) = progCall.ret
        /\ (Unreadable(progCall.op, progCall.outcome)
              \/ CompileFails(progCall.op, progCall.outcome)
              \/ LinkFails(progCall.outcome))
               => (~progCall.ret /\ programId_ = 0)
        /\ progCall.prevId # 0
               => \E i \in 1..Len(progCall.ops) :
                      progCall.ops[i] = Gl("glDeleteProgram", progCall.prevId)

\* A program was built, then buildFromFiles met an unreadable fragment file:
\* the call returned false, released the old program and id() is 0.
C20_Witness ==
    /\ progCall.builds >= 2
    /\ progCall.op = "buildFromFiles"
    /\ progCall.prevId # 0
    /\ ~progCall.outcome.read2
    /\ ~progCall.ret
    /\ programId_ = 0
    /\ progCall.ops = <<Gl("spdlog::error", 0), Gl("glDeleteProgram", progCall.prevId)>>

(***************************************************************************)
(* ShadowSystem::updateDirectional: the cascade splits, in the scaled      *)
(* float arithmetic.  The matrices of a cascade are built from the camera, *)
(* the light direction and the two split distances of the cascade (and the *)
(* constants dirZPadding_, dirShadowResolution_); dirShadowOut keeps those *)
(* instead of the sixteen floats.                                          *)
(***************************************************************************)
MaxNearQuanta == 4      \* SpecCascades: nearPlane ranges over the floats up to this many quanta
MaxPlaneRatio == 16     \* SpecCascades: farPlane <= MaxPlaneRatio * nearPlane
MaxCascadeCalls == 2    \* SpecCascadeCalls: updateDirectional calls

\* Mutant of CascadeP: the index itself, not the index plus one.
CascadeP_FromZero(i, cascades) == fdiv(ToFloat(i), ToFloat(cascades))

\* const float p = static_cast<float>(i + 1) / static_cast<float>(dirCascadeCount_);
CascadeP(i, cascades) == fdiv(ToFloat(i + 1), ToFloat(cascades))

\* const float logSplit = minZ * std::pow(ratio, p);  with ratio = maxZ / minZ
logSplit(minZ, maxZ, p) == fmul(minZ, pow(fdiv(maxZ, minZ), p))

\* const float uniformSplit = minZ + range * p;  with range = maxZ - minZ
uniformSplit(minZ, maxZ, p) == fadd(minZ, fmul(fsub(maxZ, minZ), p))

\* Mutant of CascadeSplit: the blend starts from the logarithmic split.
CascadeSplit_FromLog(minZ, maxZ, lambda, i, cascades) ==
    LET p == CascadeP(i, cascades)
        l == logSplit(minZ, maxZ, p)
        u == uniformSplit(minZ, maxZ, p)
    IN  fadd(fmul(lambda, fsub(l, u)), l)

\* const float split = dirSplitLambda_ * (logSplit - uniformSplit) + uniformSplit;
CascadeSplit(minZ, maxZ, lambda, i, cascades) ==
    LET p == CascadeP(i, cascades)
        l == logSplit(minZ, maxZ, p)
        u == uniformSplit(minZ, maxZ, p)
    IN  fadd(fmul(lambda, fsub(l, u)), u)

\* const float splitDist = (split - nearPlane) / clipRange;
SplitDist(split, minZ, maxZ) == fdiv(fsub(split, minZ), fsub(maxZ, minZ))

\* The splits of the cascades 0 .. n - 1, in loop order.
RECURSIVE SplitSeq(_, _, _, _, _)
SplitSeq(minZ, maxZ, lambda, cascades, n) ==
    IF n <= 0 THEN <<>>
    ELSE Append(SplitSeq(minZ, maxZ, lambda, cascades, n - 1),
                CascadeSplit(minZ, maxZ, lambda, n - 1, cascades))

\* What the loop leaves in the arrays: the first elements from the splits sp,
\* the first cascade starting at the split distance first; the elements from
\* dirCascadeCount_ on are not written.
CascadeArrays(args, sp, first, splits, out) ==
    [splits |-> [k \in 1..kMaxCascades |-> IF k <= Len(sp) THEN sp[k] ELSE splits[k]],
     out |-> [k \in 1..kMaxCascades |->
                 IF k <= Len(sp)
                 THEN [camera |-> args.camera, lightDir |-> args.lightDir,
                       prevSplitDist |->
                           IF k = 1 THEN first
                           ELSE SplitDist(sp[k - 1], args.nearPlane, args.farPlane),
                       splitDist |-> SplitDist(sp[k], args.nearPlane, args.farPlane)]
                 ELSE out[k]]]

\* Mutant of updateDirectional: the first cascade starts where the last call ended.
updateDirectional_Carries(args, cascades, lambda, splits, out) ==
    CascadeArrays(args, SplitSeq(args.nearPlane, args.farPlane, lambda, cascades, cascades),
                  out[Max(1, cascades)].splitDist, splits, out)

\* updateDirectional(view, proj, lightDirWorld, nearPlane, farPlane): the arrays
\* after the call; float prevSplitDist = 0.0f before the loop.
updateDirectional(args, cascades, lambda, splits, out) ==
    CascadeArrays(args, SplitSeq(args.nearPlane, args.farPlane, lambda, cascades, cascades),
                  0, splits, out)

\* near > 0, near < far, both floats.
PlanePairs ==
    {pl \in (1..MaxNearQuanta) \X (2..(MaxPlaneRatio * MaxNearQuanta)) :
        /\ Representable(pl[1]) /\ Representable(pl[2])
        /\ pl[1] < pl[2] /\ pl[2] <= MaxPlaneRatio * pl[1]}

\* lambda in [0, 1]
Lambdas == {l \in 0..Quantum : Representable(l)}

CascadeArgs(cameras, lightDirs, planes) ==
    {[camera |-> c, lightDir |-> d, nearPlane |-> pl[1], farPlane |-> pl[2]] :
        c \in cameras, d \in lightDirs, pl \in planes}

DirectionalUpdated(args, r) ==
    /\ dirCascadeSplits_' = r.splits
    /\ dirShadowOut' = r.out
    /\ cascadeCall' = [calls |-> cascadeCall.calls + 1, args |-> args,
                       frame |-> frameIndex_,
                       prevArgs |-> cascadeCall.args,
                       laterFrame |-> frameIndex_ > cascadeCall.frame,
                       prevSplits |-> dirCascadeSplits_, prevOut |-> dirShadowOut]

\* shadowSystem.updateDirectional(view, proj, lightDir, nearPlane, farPlane)
UpdateDirectional(argSet) ==
    /\ \E args \in argSet :
           DirectionalUpdated(args, updateDirectional(args, dirCascadeCount_, dirSplitLambda_,
                                                      dirCascadeSplits_, dirShadowOut))
    /\ UNCHANGED dirSplitLambda_

othersThanCascades ==
    <<engineVars, loopVars, tileVars, shadowVars, sceneVars, glEnvVars, destructLog,
      volumeVars, compositeVars, meshVars, programVars, workgroup, lightBufferVars,
      glOwner, shadowDrawn>>

ShadowResourcesIdle ==
    /\ dirUpdateEvery_ = 1 /\ spotUpdateEvery_ = 1 /\ pointUpdateEvery_ = 1
    /\ shadowDepthShader_ = 0
    /\ dirShadowMap_ = 0 /\ dirShadowFbo_ = 0
    /\ spotShadowMap_ = 0 /\ spotShadowFbo_ = 0
    /\ pointShadowMap_ = 0 /\ pointShadowFbo_ = 0
    /\ glOutcome = GlAllOk
    /\ glState = GlDefaultState
    /\ shadowLayers = [dir |-> <<>>, spot |-> <<>>, point |-> <<>>]
    /\ shadowInitRet = "none"
    /\ lastRender = NoRender

\* A ShadowSystem configured with a cascade count in 1..kMaxCascades and a
\* split lambda in [0, 1].
InitCascades ==
    /\ Constructed(ComputeContext, tileSize_, tileSize_)
    /\ TilesIdle
    /\ ShadowIdle
    /\ GlEnvIdle
    /\ VolumeIdle /\ CompositeIdle /\ MeshIdle /\ ProgramIdle
    /\ ShadowResourcesIdle
    /\ AfterCascadesIdle
    /\ dirCascadeCount_ \in 1..kMaxCascades
    /\ dirSplitLambda_ \in Lambdas
    /\ dirCascadeSplits_ = NoSplits
    /\ dirShadowOut = NoCascadeOuts
    /\ cascadeCall = NoCascadeCall

\* The first updateDirectional call of a ShadowSystem, with any pair of planes.
UpdateDirectionalAnyPlanes ==
    /\ cascadeCall.calls = 0
    /\ UpdateDirectional(CascadeArgs({"camA"}, {"sun"}, PlanePairs))
    /\ UNCHANGED <<othersThanCascades, shadowGlVars>>

NextCascades == UpdateDirectionalAnyPlanes

SpecCascades == InitCascades /\ [][NextCascades]_vars

CascadesComputed == cascadeCall.calls > 0
nearPlane == cascadeCall.args.nearPlane
farPlane == cascadeCall.args.farPlane
LogOf(k) == logSplit(nearPlane, farPlane, CascadeP(k - 1, dirCascadeCount_))
UniformOf(k) == uniformSplit(nearPlane, farPlane, CascadeP(k - 1, dirCascadeCount_))

PureMagnitude(k) == Max(Abs(LogOf(k)), Abs(UniformOf(k)))

InitCascadeCalls ==
    /\ Constructed(ComputeContext, tileSize_, tileSize_)
    /\ TilesIdle
    /\ ShadowIdle
    /\ ExtIdle

\* The cameras, light directions and planes of the calls.
CallArgs == CascadeArgs({"camA", "camB"}, {"sun"}, {<<4, 12>>})

UpdateDirectionalCall ==
    /\ cascadeCall.calls < MaxCascadeCalls
    /\ UpdateDirectional(CallArgs)
    /\ UNCHANGED <<othersThanCascades, shadowGlVars>>

NextCascadeCalls ==
    \/ UpdateDirectionalCall
    \/ (CallShadowInit /\ UNCHANGED <<engineVars, loopVars, tileVars, sceneVars, glEnvVars,
                                       destructLog, miscVars>>)
    \/ (SchedBeginFrame /\ UNCHANGED <<engineVars, loopVars, tileVars, sceneVars, glEnvVars,
                                        destructLog, miscVars>>)
    \/ (SchedRegisterSpot /\ UNCHANGED <<engineVars, loopVars, tileVars, sceneVars, glEnvVars,
                                          destructLog, miscVars>>)
    \/ (RenderDirectionalShadows /\ UNCHANGED <<engineVars, loopVars, tileVars, sceneVars,
                                                 glEnvVars, destructLog, miscVars>>)
    \/ (RenderSpotShadows /\ UNCHANGED <<engineVars, loopVars, tileVars, sceneVars, glEnvVars,
                                          destructLog, miscVars>>)

SpecCascadeCalls == InitCascadeCalls /\ [][NextCascadeCalls]_vars

Invocations == 0..(TILE_PIXELS - 1)

\* barrier(): invocation idx may leave the barrier it has arrived at.
BarrierPassable(arrived, idx) == \A j \in DOMAIN arrived : arrived[j] >= arrived[idx]

\* An access of invocation idx to element elem of a shared array, in the barrier
\* phase the invocation is in.
Access(w, idx, kind, array, elem) ==
    [phase |-> w.arrived[idx], idx |-> idx, kind |-> kind, array |-> array, elem |-> elem]

\* sMin[idx] = valid ? depth : 1.0; sMax[idx] = valid ? depth : 0.0; barrier();
WgSample(w, idx) ==
    LET s == LocalSample(w.tile, idx, w.screen, w.tex)
    IN  [w EXCEPT !.sMin[idx] = IF s.valid THEN s.depth ELSE DepthOne,
                  !.sMax[idx] = IF s.valid THEN s.depth ELSE 0,
                  !.access = @ \cup {Access(w, idx, "w", "sMin", idx),
                                     Access(w, idx, "w", "sMax", idx)},
                  !.arrived[idx] = @ + 1,
                  !.pc[idx] = "barrier"]

\* Leaving a barrier: the first one enters the loop with stride = TILE_PIXELS / 2u,
\* the later ones run stride >>= 1u; the loop ends when stride is 0.
WgLeaveBarrier(w, idx) ==
    LET stride == IF w.arrived[idx] = 1 THEN TILE_PIXELS \div 2 ELSE w.stride[idx] \div 2
    IN  [w EXCEPT !.stride[idx] = stride,
                  !.pc[idx] = IF stride > 0 THEN "reduceMin" ELSE "store"]

\* Mutant of ReducePartner: the next element.
ReducePartner_Next(idx, stride) == idx + 1

\* The element an invocation folds into its own: [idx + stride].
ReducePartner(idx, stride) == idx + stride

\* if (idx < stride) sMin[idx] = min(sMin[idx], sMin[idx + stride]);
WgReduceMin(w, idx) ==
    LET stride == w.stride[idx]
    IN  IF idx < stride
        THEN [w EXCEPT !.sMin[idx] = Min(w.sMin[idx], w.sMin[ReducePartner(idx, stride)]),
                       !.access = @ \cup {Access(w, idx, "r", "sMin", idx),
                                          Access(w, idx, "r", "sMin", ReducePartner(idx, stride)),
                                          Access(w, idx, "w", "sMin", idx)},
                       !.pc[idx] = "reduceMax"]
        ELSE [w EXCEPT !.pc[idx] = "reduceMax"]

\* if (idx < stride) sMax[idx] = max(sMax[idx], sMax[idx + stride]); barrier();
WgReduceMax(w, idx) ==
    LET stride == w.stride[idx]
    IN  IF idx < stride
        THEN [w EXCEPT !.sMax[idx] = Max(w.sMax[idx], w.sMax[ReducePartner(idx, stride)]),
                       !.access = @ \cup {Access(w, idx, "r", "sMax", idx),
                                          Access(w, idx, "r", "sMax", ReducePartner(idx, stride)),
                                          Access(w, idx, "w", "sMax", idx)},
                       !.arrived[idx] = @ + 1,
                       !.pc[idx] = "barrier"]
        ELSE [w EXCEPT !.arrived[idx] = @ + 1, !.pc[idx] = "barrier"]

\* if (idx == 0u) tileDepth[tileIndex] = vec2(sMin[0], sMax[0]);
\* uTileCount is the number of tiles that cover uScreenSize.
WgStore(w, idx) ==
    LET tilesX == (w.screen[1] + tileSize_ - 1) \div tileSize_
    IN  IF idx = 0
        THEN [w EXCEPT !.stores = @ \cup {[idx |-> idx,
                                           tileIndex |-> w.tile[2] * tilesX + w.tile[1],
                                           value |-> <<w.sMin[0], w.sMax[0]>>]},
                       !.access = @ \cup {Access(w, idx, "r", "sMin", 0),
                                          Access(w, idx, "r", "sMax", 0)},
                       !.pc[idx] = "done"]
        ELSE [w EXCEPT !.pc[idx] = "done"]

\* The pixels of a tile, and the depth textures of the model: one pixel of the
\* tile shows a wall, one far-plane geometry, the others the ground or nothing.
TilePixels(tile) ==
    {<<tile[1] * tileSize_ + x, tile[2] * tileSize_ + y>> : x, y \in 0..(tileSize_ - 1)}

TileTextures(tile) ==
    {[p \in TilePixels(tile) |->
         IF p = lo THEN WallDepth ELSE IF p = hi THEN FarDepth ELSE base] :
     lo \in TilePixels(tile), hi \in TilePixels(tile), base \in {GroundDepth, DepthOne}}

\* The tiles of the model and the screens they are the last tile of: a screen that
\* ends after the tile's first column or row, or with the tile.
WorkgroupTiles == {<<0, 0>>, <<1, 0>>}

TileScreens(tile) ==
    {<<tile[1] * tileSize_ + w, tile[2] * tileSize_ + h>> : w, h \in {1, tileSize_}}

othersThanWorkgroup ==
    <<engineVars, loopVars, tileVars, shadowVars, sceneVars, shadowGlVars, glEnvVars,
      destructLog, volumeVars, compositeVars, meshVars, programVars, cascadeVars,
      lightBufferVars, glOwner, shadowDrawn>>

InitWorkgroup ==
    /\ Constructed(ComputeContext, tileSize_, tileSize_)
    /\ TilesIdle
    /\ ShadowIdle
    /\ ShadowGlIdle
    /\ GlEnvIdle
    /\ VolumeIdle /\ CompositeIdle /\ MeshIdle /\ ProgramIdle /\ CascadeIdle
    /\ AfterWorkgroupIdle
    /\ \E tile \in WorkgroupTiles :
       \E screen \in TileScreens(tile) :
       \E tex \in TileTextures(tile) :
           workgroup = [NoWorkgroup EXCEPT !.tile = tile, !.screen = screen, !.tex = tex,
                                           !.pc = [idx \in Invocations |-> "sample"]]

InvocationSample ==
    \E idx \in Invocations :
        /\ workgroup.pc[idx] = "sample"
        /\ workgroup' = WgSample(workgroup, idx)
        /\ UNCHANGED othersThanWorkgroup

InvocationLeaveBarrier ==
    \E idx \in Invocations :
        /\ workgroup.pc[idx] = "barrier"
        /\ BarrierPassable(workgroup.arrived, idx)
        /\ workgroup' = WgLeaveBarrier(workgroup, idx)
        /\ UNCHANGED othersThanWorkgroup

InvocationReduceMin ==
    \E idx \in Invocations :
        /\ workgroup.pc[idx] = "reduceMin"
        /\ workgroup' = WgReduceMin(workgroup, idx)
        /\ UNCHANGED othersThanWorkgroup

InvocationReduceMax ==
    \E idx \in Invocations :
        /\ workgroup.pc[idx] = "reduceMax"
        /\ workgroup' = WgReduceMax(workgroup, idx)
        /\ UNCHANGED othersThanWorkgroup

InvocationStore ==
    \E idx \in Invocations :
        /\ workgroup.pc[idx] = "store"
        /\ workgroup' = WgStore(workgroup, idx)
        /\ UNCHANGED othersThanWorkgroup

NextWorkgroup ==
    \/ InvocationSample
    \/ InvocationLeaveBarrier
    \/ InvocationReduceMin
    \/ InvocationReduceMax
    \/ InvocationStore

SpecWorkgroup == InitWorkgroup /\ [][NextWorkgroup]_vars

\* The valid depth samples of the tile's in-screen pixels.
ValidSamples(w) ==
    {w.tex[p] : p \in {q \in TilePixels(w.tile) :
                          /\ q[1] < w.screen[1] /\ q[2] < w.screen[2]
                          /\ w.tex[q] < kDepthEpsilon}}

SetMin(S) == CHOOSE m \in S : \A v \in S : m <= v
SetMax(S) == CHOOSE m \in S : \A v \in S : m >= v

\* Two invocations touch the same shared element in the same barrier phase, and
\* one of them writes it.
SharedConflict(w) ==
    \E a, b \in w.access :
        /\ a.idx # b.idx /\ a.phase = b.phase
        /\ a.array = b.array /\ a.elem = b.elem
        /\ "w" \in {a.kind, b.kind}

WorkgroupDone(w) == \A idx \in Invocations : w.pc[idx] = "done"

\* C24: under every interleaving of the invocations of a work group that respects
\* barrier(), no invocation reads or writes a shared element that another
\* invocation writes in the same barrier phase, at most one store to tileDepth is
\* made, and when the group has finished exactly one invocation has stored, at the
\* tile's index, the minimum and maximum of the valid depth samples of the tile's
\* in-screen pixels (1.0 and 0.0 when the tile has none).
C24_ReductionRaceFree ==
    /\ ~SharedConflict(workgroup)
    /\ Cardinality(workgroup.stores) <= 1
    /\ WorkgroupDone(workgroup) =>
           /\ Cardinality({s.idx : s \in workgroup.stores}) = 1
           /\ \A s \in workgroup.stores :
                  /\ s.tileIndex = workgroup.tile[1]
                  /\ s.value = IF ValidSamples(workgroup) = {}
                               THEN <<DepthOne, 0>>
                               ELSE <<SetMin(ValidSamples(workgroup)),
                                      SetMax(ValidSamples(workgroup))>>

\* A finished group on a tile whose second row is off the screen: the wall is in
\* the off-screen row, the screen row shows the ground and far-plane geometry.
C24_Witness ==
    /\ WorkgroupDone(workgroup)
    /\ workgroup.tile = <<1, 0>>
    /\ workgroup.screen = <<2 * tileSize_, 1>>
    /\ \E p \in TilePixels(workgroup.tile) : p[2] >= 1 /\ workgroup.tex[p] = WallDepth
    /\ \E p \in TilePixels(workgroup.tile) : p[2] = 0 /\ workgroup.tex[p] = FarDepth
    /\ ValidSamples(workgroup) = {GroundDepth}
    /\ workgroup.stores = {[idx |-> 0, tileIndex |-> 1, value |-> <<GroundDepth, GroundDepth>>]}

\* The cull face a light's volume is rasterised with: the point and the spot
\* volumes are drawn instanced, after the one glCullFace call of the pass.
LightCullFace(i) == volumeCullFace

\* C25 as stated: in a frame with lights, every light's volume is rasterised with
\* front faces culled exactly when the camera is inside that light's own volume,
\* whatever the other lights are.
C25_OwnVolumeCull ==
    viewLights # <<>> =>
        \A i \in 1..Len(viewLights) :
            (LightCullFace(i) = "GL_FRONT") <=> ContainsCamera(viewLights[i])

(***************************************************************************)
(* SpecLightBuffer: the deferred tier's lights from buildLights through    *)
(* updateLights and lightsTbo_ to the instanced volume draws and what      *)
(* deferred_volume.vert / .frag fetch for every drawn instance.            *)
(***************************************************************************)
MaxBuiltPoints == 3     \* kPointLights (32 in the source) is 0..MaxBuiltPoints
MaxBuiltSpots == 2      \* kSpotLights (8 in the source) is 0..MaxBuiltSpots
MaxLightFrames == 2     \* frames per run
MaxTicks == 3           \* SDL_GetTicks() values 1..MaxTicks

\* struct GpuLight, member by member: each a glm::vec4.
GpuLight == <<"positionRadius", "colorIntensity", "directionType", "spotParams",
              "shadowInfo">>
kVec4Bytes == 16        \* sizeof(glm::vec4), one GL_RGBA32F texel
sizeofGpuLight == Len(GpuLight) * kVec4Bytes

\* buildLights: the point lights, then the spot lights; phase tells the lights of
\* one type apart.
buildLights(points, spots) ==
    [i \in 1..(points + spots) |->
        IF i <= points
        THEN [type |-> "Point", phase |-> i]
        ELSE [type |-> "Spot", phase |-> i - points]]

\* appendLight: the GpuLight of a light at a time; the position is a function of
\* basePosition, phase and time.
appendLight(light, time) == [type |-> light.type, phase |-> light.phase, time |-> time]

IsPoint(light) == light.type = "Point"
IsSpot(light) == light.type = "Spot"

RECURSIVE AppendAll(_, _)
AppendAll(lights, time) ==
    IF lights = <<>> THEN <<>>
    ELSE <<appendLight(Head(lights), time)>> \o AppendAll(Tail(lights), time)

\* Mutant of updateLightsOrder: the spot lights first.
updateLightsOrder_SpotsFirst(lights, time) ==
    AppendAll(SelectSeq(lights, IsSpot), time) \o AppendAll(SelectSeq(lights, IsPoint), time)

\* updateLights: the two loops over lights_, points first.
updateLightsOrder(lights, time) ==
    AppendAll(SelectSeq(lights, IsPoint), time) \o AppendAll(SelectSeq(lights, IsSpot), time)

\* glBufferData / glBufferSubData(..., gpuLights_.data()): the bytes of the vector
\* seen as GL_RGBA32F texels, sizeof(GpuLight) bytes per element.
TexelsOf(gpu) ==
    [t \in 1..(Len(gpu) * (sizeofGpuLight \div kVec4Bytes)) |->
        [light |-> (t - 1) \div (sizeofGpuLight \div kVec4Bytes),
         field |-> GpuLight[((t - 1) % (sizeofGpuLight \div kVec4Bytes)) + 1]]]

\* updateLights on the Deferred41 path: the vector, the counts and the buffer.
updateLights(lights, time, gpu, texels, pass) ==
    IF lights = <<>>
    THEN [gpuLights_ |-> gpu, lightTexels |-> texels,
          pass |-> [pass EXCEPT !.lightCount_ = 0, !.pointLightCount_ = 0,
                                !.spotLightCount_ = 0]]
    ELSE LET g == updateLightsOrder(lights, time)
         IN  [gpuLights_ |-> g, lightTexels |-> TexelsOf(g),
              pass |-> [pass EXCEPT !.lightCount_ = Len(g),
                                    !.pointLightCount_ = Len(SelectSeq(lights, IsPoint)),
                                    !.spotLightCount_ = Len(SelectSeq(lights, IsSpot))]]

\* renderDeferredScene: the instanced draws of the volume pass.
volumeDraws(pass) ==
    IF pass.lightCount_ > 0
    THEN (IF pass.pointLightCount_ > 0
          THEN <<[mesh |-> "lightSphere_", uIsSpot |-> 0, uLightOffset |-> 0,
                  instances |-> pass.pointLightCount_]>>
          ELSE <<>>)
         \o (IF pass.spotLightCount_ > 0
             THEN <<[mesh |-> "lightCone_", uIsSpot |-> 1,
                     uLightOffset |-> pass.pointLightCount_,
                     instances |-> pass.spotLightCount_]>>
             ELSE <<>>)
    ELSE <<>>

\* The light indices a draw covers: uLightOffset + gl_InstanceID.
DrawnIndices(call) == {call.uLightOffset + id : id \in 0..(call.instances - 1)}

kVolumeStride == 4      \* int base = lightIndex * 4;

\* deferred_volume.vert: posRadius, dirType, spotParams at base, base + 2, base + 3.
VolumeVertexFetches(lightIndex) ==
    {[shader |-> "vert", lightIndex |-> lightIndex, field |-> "positionRadius",
      offset |-> lightIndex * kVolumeStride],
     [shader |-> "vert", lightIndex |-> lightIndex, field |-> "directionType",
      offset |-> lightIndex * kVolumeStride + 2],
     [shader |-> "vert", lightIndex |-> lightIndex, field |-> "spotParams",
      offset |-> lightIndex * kVolumeStride + 3]}

\* deferred_volume.frag: posRadius, colorIntensity, dirType, spotParams at
\* base .. base + 3, with vLightIndex as the vertex shader passed it.
VolumeFragmentFetches(vLightIndex) ==
    {[shader |-> "frag", lightIndex |-> vLightIndex, field |-> "positionRadius",
      offset |-> vLightIndex * kVolumeStride],
     [shader |-> "frag", lightIndex |-> vLightIndex, field |-> "colorIntensity",
      offset |-> vLightIndex * kVolumeStride + 1],
     [shader |-> "frag", lightIndex |-> vLightIndex, field |-> "directionType",
      offset |-> vLightIndex * kVolumeStride + 2],
     [shader |-> "frag", lightIndex |-> vLightIndex, field |-> "spotParams",
      offset |-> vLightIndex * kVolumeStride + 3]}

VolumeFetches(draws) ==
    UNION {VolumeVertexFetches(i) \cup VolumeFragmentFetches(i) :
           i \in UNION {DrawnIndices(draws[d]) : d \in 1..Len(draws)}}

othersThanLightBuffer ==
    <<engineVars, loopVars, tileVars, shadowVars, sceneVars, shadowGlVars, glEnvVars,
      destructLog, volumeVars, compositeVars, meshVars, programVars, cascadeVars,
      workgroup, glOwner, shadowDrawn>>

\* After init(): buildScene has run buildLights and gpuLights_.resize(lights_.size()).
InitLightBuffer ==
    /\ Constructed(DeferredContext, tileSize_, tileSize_)
    /\ TilesIdle
    /\ ShadowIdle
    /\ ShadowGlIdle
    /\ GlEnvIdle
    /\ VolumeIdle /\ CompositeIdle /\ MeshIdle /\ ProgramIdle /\ CascadeIdle
    /\ WorkgroupIdle
    /\ AfterLightBufferIdle
    /\ \E points \in 0..MaxBuiltPoints, spots \in 0..MaxBuiltSpots :
           /\ lights_ = buildLights(points, spots)
           /\ gpuLights_ = [i \in 1..(points + spots) |->
                               [type |-> "Point", phase |-> 0, time |-> 0]]
           /\ lightPass = [NoLightPass EXCEPT !.built = buildLights(points, spots)]
    /\ lightTexels = <<>>

\* renderScene: updateLights() at the time SDL_GetTicks() returns.
LightsUpdate ==
    /\ lightPass.stage \in {"idle", "drawn"}
    /\ lightPass.frames < MaxLightFrames
    /\ \E time \in 1..MaxTicks :
           LET r == updateLights(lights_, time, gpuLights_, lightTexels, lightPass)
           IN  /\ gpuLights_' = r.gpuLights_
               /\ lightTexels' = r.lightTexels
               /\ lightPass' = [r.pass EXCEPT !.stage = "updated", !.frames = @ + 1,
                                              !.draws = <<>>, !.fetches = {}]
    /\ UNCHANGED <<lights_, othersThanLightBuffer>>

\* renderDeferredScene: the volume pass and the fetches of its instances.
LightsVolumePass ==
    /\ lightPass.stage = "updated"
    /\ lightPass' = [lightPass EXCEPT !.stage = "drawn",
                                      !.draws = volumeDraws(lightPass),
                                      !.fetches = VolumeFetches(volumeDraws(lightPass))]
    /\ UNCHANGED <<lights_, gpuLights_, lightTexels, othersThanLightBuffer>>

NextLightBuffer == LightsUpdate \/ LightsVolumePass

SpecLightBuffer == InitLightBuffer /\ [][NextLightBuffer]_vars

Phases(seq) == [i \in 1..Len(seq) |-> <<seq[i].type, seq[i].phase>>]

DrawnBy(mesh) ==
    UNION {DrawnIndices(lightPass.draws[d]) :
           d \in {e \in 1..Len(lightPass.draws) : lightPass.draws[e].mesh = mesh}}

\* C26: after an updateLights call with a non-empty light list gpuLights_ holds the
\* point lights in their order in lights_ followed by the spot lights in theirs,
\* pointLightCount_ + spotLightCount_ = lightCount_ = the number of lights, the
\* volume pass draws the spheres for the indices [0, pointLightCount_) and the
\* cones for [pointLightCount_, lightCount_), and lights_ is what buildLights left.
C26_PointsThenSpots ==
    /\ lights_ = lightPass.built
    /\ (lightPass.frames > 0 /\ lights_ # <<>>) =>
           /\ Phases(gpuLights_) =
                  Phases(SelectSeq(lights_, IsPoint)) \o Phases(SelectSeq(lights_, IsSpot))
           /\ lightPass.pointLightCount_ + lightPass.spotLightCount_ = lightPass.lightCount_
           /\ lightPass.lightCount_ = Len(lights_)
           /\ lightPass.pointLightCount_ = Len(SelectSeq(lights_, IsPoint))
           /\ lightPass.stage = "drawn" =>
                  /\ DrawnBy("lightSphere_") = 0..(lightPass.pointLightCount_ - 1)
                  /\ DrawnBy("lightCone_") =
                         lightPass.pointLightCount_..(lightPass.lightCount_ - 1)
                  /\ \A i \in DrawnBy("lightSphere_") : gpuLights_[i + 1].type = "Point"
                  /\ \A i \in DrawnBy("lightCone_") : gpuLights_[i + 1].type = "Spot"

\* The second frame's volume pass over two point lights and two spot lights.
C26_Witness ==
    /\ lightPass.frames = 2 /\ lightPass.stage = "drawn"
    /\ Len(SelectSeq(lights_, IsPoint)) = 2 /\ Len(SelectSeq(lights_, IsSpot)) = 2
    /\ Len(lightPass.draws) = 2
    /\ DrawnBy("lightCone_") = {2, 3}
    /\ gpuLights_[3] = [type |-> "Spot", phase |-> 1, time |-> 2]

\* C29 as stated: every texel offset at which deferred_volume.vert and
\* deferred_volume.frag fetch a field of a drawn light holds that field of that
\* light as updateLights uploaded it.
C29_FetchedWhereWritten ==
    \A f \in lightPass.fetches :
        /\ f.offset + 1 \in DOMAIN lightTexels
        /\ lightTexels[f.offset + 1] = [light |-> f.lightIndex, field |-> f.field]

\* C27 as stated: whenever the last init() returned true the window and the context
\* exist and sceneReady_ is true, also when an earlier init() failed in buildScene,
\* and run() is inside its main loop only with a ready scene.
C27_InitTrueMeansReady ==
    /\ lastInitRet = "true" => (window_ /\ glContext_ /\ sceneReady_)
    /\ pc \in {"poll", "render", "swap"} => sceneReady_

(***************************************************************************)
(* SpecHandles: the engine's GL handle fields with the GL objects behind   *)
(* them. glGen* hands out a name that is not in use; glDelete* ends the    *)
(* life of the object it names.                                            *)
(***************************************************************************)
MaxOwnerOps == 5        \* init, resize events, frames and destroy calls per run

\* glGen*(1, &field)
glGen(e, field) ==
    [e EXCEPT !.f[field] = e.next, !.live = @ \cup {e.next}, !.next = @ + 1]

\* glDelete*(1, &field)
glDelete(e, field) ==
    [e EXCEPT !.doubleDelete = @ \/ e.f[field] \notin e.live,
              !.live = @ \ {e.f[field]},
              !.deleted = Append(@, field)]

\* Mutant of DeleteIfSet: the field keeps the deleted name.
DeleteIfSet_KeepsName(e, field) ==
    IF e.f[field] # 0 THEN glDelete(e, field) ELSE e

\* if (field != 0) { glDelete*(1, &field); field = 0; }
DeleteIfSet(e, field) ==
    IF e.f[field] # 0 THEN [glDelete(e, field) EXCEPT !.f[field] = 0] ELSE e

RECURSIVE DeleteAll(_, _)
DeleteAll(e, fields) ==
    IF fields = <<>> THEN e ELSE DeleteAll(DeleteIfSet(e, Head(fields)), Tail(fields))

RECURSIVE GenAll(_, _)
GenAll(e, fields) ==
    IF fields = <<>> THEN e ELSE GenAll(glGen(e, Head(fields)), Tail(fields))

destroyDeferredObjects(e) ==
    IF ~e.glContext_ THEN e
    ELSE [DeleteAll(e, <<"gbufferFbo_", "lightFbo_", "gbufferAlbedo_", "gbufferNormal_",
                         "gbufferDepthColor_", "gbufferDepth_", "lightColor_",
                         "lightsTboTex_", "lightsTbo_", "fullscreenVao_">>)
          EXCEPT !.deferredWidth_ = 0, !.deferredHeight_ = 0, !.lightTboSize_ = 0]

ensureDeferredObjects(e) ==
    IF e.path # "Deferred41" THEN e
    ELSE IF e.width_ <= 0 \/ e.height_ <= 0 THEN e
    ELSE IF e.width_ = e.deferredWidth_ /\ e.height_ = e.deferredHeight_
            /\ e.f["gbufferFbo_"] # 0 /\ e.f["lightFbo_"] # 0 THEN e
    ELSE LET d == [destroyDeferredObjects(e) EXCEPT !.deferredWidth_ = e.width_,
                                                     !.deferredHeight_ = e.height_]
             g == GenAll(d, <<"gbufferAlbedo_", "gbufferNormal_", "gbufferDepthColor_",
                              "gbufferDepth_", "gbufferFbo_", "lightColor_", "lightFbo_">>)
         IN  IF g.f["fullscreenVao_"] = 0 THEN glGen(g, "fullscreenVao_") ELSE g

destroyLightingObjects(e) ==
    IF ~e.glContext_ THEN e
    ELSE [DeleteAll(e, <<"depthFbo_", "depthTexture_", "lightsSsbo_", "tileMetaSsbo_",
                         "tileIndexSsbo_", "tileDepthSsbo_">>)
          EXCEPT !.resourceWidth_ = 0, !.resourceHeight_ = 0, !.lightBufferSize_ = 0]

ensureLightingObjects(e) ==
    IF e.path # "TiledCompute" THEN e
    ELSE IF e.width_ <= 0 \/ e.height_ <= 0 THEN e
    ELSE IF e.width_ = e.resourceWidth_ /\ e.height_ = e.resourceHeight_ THEN e
    ELSE GenAll(DeleteAll([e EXCEPT !.resourceWidth_ = e.width_,
                                    !.resourceHeight_ = e.height_],
                          <<"depthFbo_", "depthTexture_", "tileMetaSsbo_", "tileIndexSsbo_",
                            "tileDepthSsbo_">>),
                <<"depthTexture_", "depthFbo_", "tileMetaSsbo_", "tileIndexSsbo_",
                  "tileDepthSsbo_">>)

\* updateLights from lightCount_ = ... on: the light buffer of the tier, for
\* n = gpuLights_.size() lights.
updateLightsObjects(e, n) ==
    IF e.path = "TiledCompute"
    THEN LET g == IF e.f["lightsSsbo_"] = 0 THEN glGen(e, "lightsSsbo_") ELSE e
         IN  [g EXCEPT !.lightBufferSize_ = n * GpuLightBytes]
    ELSE IF e.path = "Deferred41"
    THEN LET g == IF e.f["lightsTbo_"] = 0 THEN glGen(e, "lightsTbo_") ELSE e
             t == IF g.f["lightsTboTex_"] = 0 THEN glGen(g, "lightsTboTex_") ELSE g
         IN  [t EXCEPT !.lightTboSize_ = n * sizeofGpuLight]
    ELSE e

\* updateProjection: ensureLightingResources / ensureDeferredResources by tier.
updateProjectionObjects(e) ==
    IF e.path = "TiledCompute" THEN ensureLightingObjects(e)
    ELSE IF e.path = "Deferred41" THEN ensureDeferredObjects(e)
    ELSE e

\* renderScene with a ready scene and the lights buildLights made.
renderSceneObjects(e) ==
    IF e.path = "TiledCompute" THEN updateLightsObjects(e, kPointLights + kSpotLights)
    ELSE IF e.path = "Deferred41"
    THEN (IF e.f["gbufferFbo_"] = 0 \/ e.f["lightFbo_"] = 0 THEN e
          ELSE updateLightsObjects(e, kPointLights + kSpotLights))
    ELSE e

\* The call op has run and left e.
OwnerAfter(op, e) ==
    glOwner' = [e EXCEPT !.lastOp = op, !.prevOp = glOwner.lastOp, !.ops = @ + 1]

OwnerStart == [glOwner EXCEPT !.deleted = <<>>]

othersThanOwner ==
    <<engineVars, loopVars, tileVars, shadowVars, sceneVars, shadowGlVars, glEnvVars,
      destructLog, volumeVars, compositeVars, meshVars, programVars, cascadeVars,
      workgroup, lightBufferVars, shadowDrawn>>

\* Window sizes: SDL_WINDOWEVENT_SIZE_CHANGED data.
OwnerSizes == {<<tileSize_, tileSize_>>, <<tileSize_ + 1, tileSize_>>, <<0, tileSize_>>}

\* A constructed engine whose init() has created the window and the context and
\* detected the tier.
InitHandles ==
    /\ Constructed(DeferredContext, tileSize_, tileSize_)
    /\ TilesIdle
    /\ ShadowIdle
    /\ ShadowGlIdle
    /\ GlEnvIdle
    /\ VolumeIdle /\ CompositeIdle /\ MeshIdle /\ ProgramIdle /\ CascadeIdle
    /\ WorkgroupIdle /\ LightBufferIdle /\ AfterOwnerIdle
    /\ \E path \in {"Deferred41", "TiledCompute"} :
           glOwner = [NoOwner EXCEPT !.path = path, !.glContext_ = TRUE,
                                     !.width_ = tileSize_, !.height_ = tileSize_]

\* init(): updateProjection() before buildScene.
OwnerInit ==
    /\ glOwner.lastOp = "none"
    /\ OwnerAfter("init", updateProjectionObjects(OwnerStart))
    /\ UNCHANGED othersThanOwner

\* handleEvent, SDL_WINDOWEVENT_SIZE_CHANGED: the new size, updateProjection().
OwnerResize ==
    /\ glOwner.lastOp # "none" /\ glOwner.ops < MaxOwnerOps
    /\ \E size \in OwnerSizes :
           OwnerAfter("resize", updateProjectionObjects(
               [OwnerStart EXCEPT !.width_ = size[1], !.height_ = size[2]]))
    /\ UNCHANGED othersThanOwner

\* One frame: renderScene.
OwnerFrame ==
    /\ glOwner.lastOp # "none" /\ glOwner.ops < MaxOwnerOps
    /\ OwnerAfter("frame", renderSceneObjects(OwnerStart))
    /\ UNCHANGED othersThanOwner

\* The destroy routine of the tier.
OwnerDestroy ==
    /\ glOwner.lastOp # "none" /\ glOwner.ops < MaxOwnerOps
    /\ OwnerAfter("destroy",
                  IF glOwner.path = "TiledCompute" THEN destroyLightingObjects(OwnerStart)
                  ELSE destroyDeferredObjects(OwnerStart))
    /\ UNCHANGED othersThanOwner

NextHandles == OwnerInit \/ OwnerResize \/ OwnerFrame \/ OwnerDestroy

SpecHandles == InitHandles /\ [][NextHandles]_vars

OwnerFields == TiledHandles \cup DeferredHandles

\* C28: after any sequence of init, resize events, frames and destroy calls every
\* non-zero handle field names a live GL object the engine generated and no two
\* fields name the same one, no GL object was deleted twice, every live object is
\* named by a field, the recorded light-buffer size is 0 whenever the light buffer
\* handle is 0, and a destroy call that directly follows a destroy call issues no
\* glDelete*.
C28_HandlesOwnObjects ==
    /\ \A h \in OwnerFields : glOwner.f[h] # 0 => glOwner.f[h] \in glOwner.live
    /\ \A h1, h2 \in OwnerFields :
           (h1 # h2 /\ glOwner.f[h1] # 0) => glOwner.f[h1] # glOwner.f[h2]
    /\ ~glOwner.doubleDelete
    /\ \A name \in glOwner.live : \E h \in OwnerFields : glOwner.f[h] = name
    /\ glOwner.f["lightsTbo_"] = 0 => glOwner.lightTboSize_ = 0
    /\ glOwner.f["lightsSsbo_"] = 0 => glOwner.lightBufferSize_ = 0
    /\ (glOwner.lastOp = "destroy" /\ glOwner.prevOp = "destroy") => glOwner.deleted = <<>>

\* The deferred tier after init, a frame, a resize that replaced the targets, and
\* two destroy calls: the second one deleted nothing, and no object is left.
C28_Witness ==
    /\ glOwner.path = "Deferred41"
    /\ glOwner.lastOp = "destroy" /\ glOwner.prevOp = "destroy"
    /\ glOwner.ops = 5
    /\ glOwner.next = 19
    /\ glOwner.width_ = tileSize_ + 1
    /\ glOwner.live = {}
    /\ glOwner.deleted = <<>>

(***************************************************************************)
(* SpecShadowAgreement: frames of a ShadowSystem whose spot and point      *)
(* lights move from frame to frame, with the view-projection every layer   *)
(* of the shadow maps was last drawn with.                                 *)
(***************************************************************************)
othersThanShadows ==
    <<engineVars, loopVars, tileVars, sceneVars, glEnvVars, destructLog, volumeVars,
      compositeVars, meshVars, programVars, cascadeVars, workgroup, lightBufferVars,
      glOwner>>

InitShadowAgreement ==
    /\ Constructed(ComputeContext, tileSize_, tileSize_)
    /\ TilesIdle
    /\ ShadowIdle
    /\ GlEnvIdle
    /\ VolumeIdle /\ CompositeIdle /\ MeshIdle /\ ProgramIdle /\ CascadeIdle
    /\ WorkgroupIdle /\ LightBufferIdle /\ OwnerIdle
    /\ shadowDrawn = NoDrawn
    /\ dirCascadeCount_ = 3
    /\ \E u \in UpdateEveryDefaults :
           /\ dirUpdateEvery_ = u.dir
           /\ spotUpdateEvery_ = u.spot
           /\ pointUpdateEvery_ = u.point
    /\ shadowDepthShader_ = 0
    /\ dirShadowMap_ = 0 /\ dirShadowFbo_ = 0
    /\ spotShadowMap_ = 0 /\ spotShadowFbo_ = 0
    /\ pointShadowMap_ = 0 /\ pointShadowFbo_ = 0
    /\ glOutcome = GlAllOk
    /\ glState = GlDefaultState
    /\ shadowLayers = [dir |-> <<>>, spot |-> <<>>, point |-> <<>>]
    /\ shadowInitRet = "none"
    /\ lastRender = NoRender

AgreeInit == CallShadowInit /\ UNCHANGED <<othersThanShadows, shadowDrawn>>

AgreeBeginFrame == SchedBeginFrame /\ UNCHANGED <<othersThanShadows, shadowDrawn>>

\* shadowSystem.registerSpotShadow(desc, invView), the first of a frame, for the
\* spot light where it is in this frame.
AgreeRegisterSpot ==
    /\ spotCalls = <<>>
    /\ shadowInitRet = "true"
    /\ \E desc \in SpotShadowDescs :
           /\ SpotRegistered(registerSpotShadow(spotShadowCount_, spotShadowViewProj_,
                                                spotShadowMatrices_, desc, "invView"))
           /\ spotCalls' = Append(spotCalls, [desc |-> desc, invView |-> "invView"])
    /\ lastCall' = "registerSpotShadow"
    /\ lastRender' = NoRender
    /\ UNCHANGED <<pointShadowCount_, frameIndex_, pointShadowViewProj_, pointCalls,
                   prevSpotCalls, ShadowConfig, glState, shadowLayers, othersThanShadows,
                   shadowDrawn>>

\* shadowSystem.registerPointShadow(desc), the first of a frame.
AgreeRegisterPoint ==
    /\ pointCalls = <<>>
    /\ shadowInitRet = "true"
    /\ \E desc \in PointShadowDescs :
           /\ PointRegistered(registerPointShadow(pointShadowCount_, pointShadowViewProj_,
                                                  desc))
           /\ pointCalls' = Append(pointCalls, desc)
    /\ lastCall' = "registerPointShadow"
    /\ lastRender' = NoRender
    /\ UNCHANGED <<spotShadowCount_, frameIndex_, spotShadowViewProj_,
                   spotShadowMatrices_, spotCalls, prevSpotCalls, ShadowConfig, glState,
                   shadowLayers, othersThanShadows, shadowDrawn>>

\* The layers of a pass that drew: layer i with
\* glUniformMatrix4fv(shadowMvpLocation_, ..., spotShadowViewProj_[i]).
SpotLayersDrawn(drawn, count, viewProj) ==
    [l \in DOMAIN drawn |-> IF l <= count THEN <<viewProj[l - 1]>> ELSE drawn[l]]

\* layer = i * 6 + face with pointShadowViewProj_[i][face]
PointLayersDrawn(drawn, count, viewProj) ==
    [l \in DOMAIN drawn |->
        IF l <= count * 6 THEN <<viewProj[(l - 1) \div 6][(l - 1) % 6]>> ELSE drawn[l]]

AgreeRenderSpot ==
    /\ RenderSpotShadows
    /\ shadowDrawn' =
           IF renderSpotShadows(spotShadowMap_, spotShadowFbo_, spotShadowCount_,
                  spotUpdateEvery_, frameIndex_, shadowLayers.spot, glState,
                  shadowDepthShader_).drew
           THEN [shadowDrawn EXCEPT
                    !.spot = SpotLayersDrawn(@, spotShadowCount_, spotShadowViewProj_)]
           ELSE shadowDrawn
    /\ UNCHANGED othersThanShadows

AgreeRenderPoint ==
    /\ RenderPointShadows
    /\ shadowDrawn' =
           IF renderPointShadows(pointShadowMap_, pointShadowFbo_, pointShadowCount_,
                  pointUpdateEvery_, frameIndex_, shadowLayers.point, glState,
                  shadowDepthShader_).drew
           THEN [shadowDrawn EXCEPT
                    !.point = PointLayersDrawn(@, pointShadowCount_, pointShadowViewProj_)]
           ELSE shadowDrawn
    /\ UNCHANGED othersThanShadows

NextShadowAgreement ==
    \/ AgreeInit
    \/ AgreeBeginFrame
    \/ AgreeRegisterSpot
    \/ AgreeRegisterPoint
    \/ AgreeRenderSpot
    \/ AgreeRenderPoint

SpecShadowAgreement == InitShadowAgreement /\ [][NextShadowAgreement]_vars

====
